---- MODULE Spec2Model ----
(***************************************************************************)
(* Model of package safem (morpheum-labs/safem): the precision-checked     *)
(* conversions between *big.Int, *big.Float and float64 of safemath.go and *)
(* number.go, with the two package-level scale caches they share.          *)
(*                                                                         *)
(* Numbers are modelled exactly.  An unbounded natural (math/big nat) is a *)
(* little-endian sequence of 15-bit words without leading zero words; a    *)
(* big.Float and a float64 are a sign, an odd binary mantissa and an       *)
(* exponent, rounded to nearest-even at the precision math/big and IEEE    *)
(* 754 prescribe.                                                          *)
(***************************************************************************)
EXTENDS Integers, Sequences, FiniteSets, TLC

\* ------------------------------------------------------------------------
\* math/big nat: unbounded naturals
\* ------------------------------------------------------------------------

\* bits per word and the word base (products of two words stay below 2^31)
W == 3 * 5
Base == 2^W

RECURSIVE natNorm(_)
natNorm(s) ==
  IF Len(s) = 0 \/ s[Len(s)] # 0 THEN s ELSE natNorm(SubSeq(s, 1, Len(s) - 1))

RECURSIVE natSet(_)
\* a machine integer 0 <= n < 2^31 as a nat
natSet(n) == IF n = 0 THEN <<>> ELSE <<n % Base>> \o natSet(n \div Base)

natWord(a, i) == IF i <= Len(a) THEN a[i] ELSE 0

RECURSIVE natCmpAt(_, _, _)
natCmpAt(a, b, i) ==
  IF i = 0 THEN 0
  ELSE IF a[i] > b[i] THEN 1
  ELSE IF a[i] < b[i] THEN -1
  ELSE natCmpAt(a, b, i - 1)

natCmp(a, b) ==
  IF Len(a) > Len(b) THEN 1
  ELSE IF Len(a) < Len(b) THEN -1
  ELSE natCmpAt(a, b, Len(a))

RECURSIVE natAddC(_, _, _, _, _)
natAddC(a, b, i, c, acc) ==
  IF i > Len(a) /\ i > Len(b)
  THEN (IF c = 0 THEN acc ELSE Append(acc, c))
  ELSE LET s == natWord(a, i) + natWord(b, i) + c
       IN natAddC(a, b, i + 1, s \div Base, Append(acc, s % Base))

natAdd(a, b) == natAddC(a, b, 1, 0, <<>>)

RECURSIVE natSubC(_, _, _, _, _)
natSubC(a, b, i, br, acc) ==
  IF i > Len(a) THEN natNorm(acc)
  ELSE LET d == a[i] - natWord(b, i) - br
       IN natSubC(a, b, i + 1, IF d < 0 THEN 1 ELSE 0,
                  Append(acc, IF d < 0 THEN d + Base ELSE d))

\* a - b for a >= b
natSub(a, b) == natSubC(a, b, 1, 0, <<>>)

RECURSIVE natMulWC(_, _, _, _, _)
natMulWC(a, m, i, c, acc) ==
  IF i > Len(a) THEN (IF c = 0 THEN acc ELSE Append(acc, c))
  ELSE LET p == a[i] * m + c
       IN natMulWC(a, m, i + 1, p \div Base, Append(acc, p % Base))

\* a * m for one word 0 <= m <= Base
natMulW(a, m) == IF m = 0 THEN <<>> ELSE natMulWC(a, m, 1, 0, <<>>)

\* a * Base^w
natShlW(a, w) == IF Len(a) = 0 THEN a ELSE [i \in 1..w |-> 0] \o a

RECURSIVE natMulAcc(_, _, _, _)
natMulAcc(a, b, j, acc) ==
  IF j > Len(b) THEN acc
  ELSE natMulAcc(a, b, j + 1, natAdd(acc, natShlW(natMulW(a, b[j]), j - 1)))

\* a * b, one word of the shorter factor at a time
natMul(a, b) ==
  IF Len(a) < Len(b) THEN natMulAcc(b, a, 1, <<>>)
  ELSE natMulAcc(a, b, 1, <<>>)

RECURSIVE natDivWC(_, _, _, _, _)
natDivWC(a, d, i, r, acc) ==
  IF i = 0 THEN [q |-> natNorm(acc), r |-> r]
  ELSE LET t == r * Base + a[i]
       IN natDivWC(a, d, i - 1, t % d, <<t \div d>> \o acc)

\* quotient (a nat) and remainder (a word) of a by one word 0 < d <= Base
natDivW(a, d) == natDivWC(a, d, Len(a), 0, <<>>)

\* a * 2^k
natShl(a, k) == natShlW(natMulW(a, 2^(k % W)), k \div W)

\* a \div 2^k
natShr(a, k) ==
  IF k \div W >= Len(a) THEN <<>>
  ELSE natDivW(SubSeq(a, (k \div W) + 1, Len(a)), 2^(k % W)).q

wordLen(x) == IF x = 0 THEN 0 ELSE CHOOSE k \in 1..W : 2^(k-1) <= x /\ x < 2^k

natBitLen(a) == IF Len(a) = 0 THEN 0 ELSE W * (Len(a) - 1) + wordLen(a[Len(a)])

\* bit i (0 = least significant) of a
natBit(a, i) == (natWord(a, (i \div W) + 1) \div 2^(i % W)) % 2

\* 1 when any of the k low bits of a is set, else 0
natSticky(a, k) ==
  IF \/ \E i \in 1..(k \div W) : natWord(a, i) # 0
     \/ natWord(a, (k \div W) + 1) % 2^(k % W) # 0
  THEN 1 ELSE 0

\* number of trailing zero bits of a # 0
natTrailingZeroBits(a) ==
  LET w == CHOOSE i \in 1..Len(a) : a[i] # 0 /\ \A j \in 1..(i-1) : a[j] = 0
      b == CHOOSE k \in 0..(W-1) : a[w] % 2^(k+1) # 0 /\ a[w] % 2^k = 0
  IN W * (w - 1) + b

RECURSIVE natDivLoop(_, _, _, _, _)
\* schoolbook long division, one quotient word per step; v is normalised
\* (its top word is at least Base/2), so the estimate from the two top
\* words of the running remainder is at most 2 too large
natDivLoop(u, v, i, r, acc) ==
  IF i = 0 THEN [q |-> natNorm(acc), r |-> r]
  ELSE LET r1   == natNorm(<<u[i]>> \o r)
           n    == Len(v)
           top  == natWord(r1, n + 1) * Base + natWord(r1, n)
           e0   == top \div v[n]
           e1   == IF e0 > Base - 1 THEN Base - 1 ELSE e0
           q1   == IF natCmp(natMulW(v, e1), r1) <= 0 THEN e1
                   ELSE IF natCmp(natMulW(v, e1 - 1), r1) <= 0 THEN e1 - 1
                   ELSE e1 - 2
       IN natDivLoop(u, v, i - 1, natSub(r1, natMulW(v, q1)), <<q1>> \o acc)

\* quotient and remainder (both nats) of a by b # 0
natDiv(a, b) ==
  IF natCmp(a, b) < 0 THEN [q |-> <<>>, r |-> a]
  ELSE IF Len(b) = 1
  THEN LET d == natDivW(a, b[1]) IN [q |-> d.q, r |-> natSet(d.r)]
  ELSE LET s == W - wordLen(b[Len(b)])
           d == natDivLoop(natShl(a, s), natShl(b, s), Len(natShl(a, s)), <<>>, <<>>)
       IN [q |-> d.q, r |-> natShr(d.r, s)]

RECURSIVE natPow10(_)
natPow10(k) ==
  IF k = 0 THEN <<1>>
  ELSE IF k % 4 = 0 THEN natMulW(natPow10(k - 4), 10000)
  ELSE natMulW(natPow10(k - 1), 10)

\* the powers of ten the operations below ask for: up to 10^MaxShowDec
\* for the text of a *big.Float
pow10Table == [k \in 0..(10 * 10) |-> natPow10(k)]

\* 10^k for k >= 0
natExp10(k) == IF k \in DOMAIN pow10Table THEN pow10Table[k] ELSE natPow10(k)

\* ------------------------------------------------------------------------
\* *big.Int values
\* ------------------------------------------------------------------------

\* a *big.Int: nil, or a sign and a magnitude
NilInt == [nil |-> TRUE, neg |-> FALSE, abs |-> <<>>]

IntOf(neg, abs) == [nil |-> FALSE, neg |-> neg /\ Len(abs) # 0, abs |-> abs]

\* big.NewInt(n) for a machine integer |n| < 2^31
NewInt(n) == IF n < 0 THEN IntOf(TRUE, natSet(0 - n)) ELSE IntOf(FALSE, natSet(n))

\* (*big.Int).Sign on a non-nil receiver
IntSign(i) == IF Len(i.abs) = 0 THEN 0 ELSE IF i.neg THEN -1 ELSE 1

\* (*big.Int).Cmp
IntCmp(a, b) ==
  IF a.neg # b.neg THEN (IF a.neg THEN -1 ELSE 1)
  ELSE IF a.neg THEN natCmp(b.abs, a.abs) ELSE natCmp(a.abs, b.abs)

\* Exp with the exponent one too large
IntExp10OffByOne(y) == IntOf(FALSE, natExp10(y + 1))

\* new(big.Int).Exp(big.NewInt(10), big.NewInt(y), nil): 1 for y <= 0
IntExp10(y) == IntOf(FALSE, IF y <= 0 THEN <<1>> ELSE natExp10(y))

\* the bounds of int64 as magnitudes: 2^63 - 1 and 2^63
MaxInt64 == natSub(natShl(<<1>>, 63), <<1>>)
MinInt64Abs == natShl(<<1>>, 63)

\* (*big.Int).IsInt64
IsInt64(i) ==
  IF i.neg THEN natCmp(i.abs, MinInt64Abs) <= 0 ELSE natCmp(i.abs, MaxInt64) <= 0

\* ------------------------------------------------------------------------
\* *big.Float and float64 values
\* ------------------------------------------------------------------------
\* A finite value is mant * 2^(exp - bitlen(mant)) with mant odd, so that
\* exp is the exponent big.Float keeps (0.5 <= 0.mant < 1).  A float64 is
\* the same record at precision 53; only a float64 takes the form "nan".

FloatZero(neg, prec) ==
  [form |-> "zero", neg |-> neg, prec |-> prec, mant |-> <<>>, exp |-> 0]
FloatInf(neg, prec) ==
  [form |-> "inf", neg |-> neg, prec |-> prec, mant |-> <<>>, exp |-> 0]
NaN == [form |-> "nan", neg |-> FALSE, prec |-> 53, mant |-> <<>>, exp |-> 0]

\* the finite value m * 2^e2 (m # 0), in canonical form
FloatOf(neg, prec, m, e2) ==
  [form |-> "finite", neg |-> neg, prec |-> prec,
   mant |-> natShr(m, natTrailingZeroBits(m)), exp |-> e2 + natBitLen(m)]

\* exponent of the least significant mantissa bit of a finite value
lsbExp(x) == x.exp - natBitLen(x.mant)

Max(a, b) == IF a >= b THEN a ELSE b
Min(a, b) == IF a <= b THEN a ELSE b

\* (*big.Float).round in mode ToNearestEven: (m + s) * 2^e2, where the
\* sticky bit sbit = 1 says that 0 < s < 1 was cut off below m's last bit
\* (then m carries at least prec + 2 bits); returns the value and its
\* accuracy
FloatRound(neg, prec, m, e2, sbit) ==
  LET bl == natBitLen(m) IN
  IF bl <= prec
  THEN [x |-> FloatOf(neg, prec, m, e2), acc |-> "Exact"]
  ELSE LET s    == bl - prec
           q    == natShr(m, s)
           rbit == natBit(m, s - 1)
           stk  == IF sbit = 1 THEN 1 ELSE natSticky(m, s - 1)
           inc  == rbit = 1 /\ (stk = 1 \/ natBit(q, 0) = 1)
           q1   == IF inc THEN natAdd(q, <<1>>) ELSE q
       IN [x   |-> FloatOf(neg, prec, q1, e2 + s),
           acc |-> IF rbit = 0 /\ stk = 0 THEN "Exact"
                   ELSE IF inc # neg THEN "Above" ELSE "Below"]

\* new(big.Float).SetInt(i): precision max(bitlen, 64), always exact
FloatSetInt(i) ==
  IF Len(i.abs) = 0 THEN FloatZero(FALSE, 64)
  ELSE FloatOf(i.neg, Max(natBitLen(i.abs), 64), i.abs, 0)

\* new(big.Float).SetFloat64(f) and big.NewFloat(f) for f other than NaN
\* (both panic with ErrNaN on NaN): precision 53, always exact
FloatSetFloat64(f) == [f EXCEPT !.prec = 53]

\* the precision of the result of a binary operation on a receiver of
\* precision zprec (0: a fresh Float takes the larger operand precision)
resultPrec(zprec, x, y) == IF zprec = 0 THEN Max(x.prec, y.prec) ELSE zprec

\* z.Quo(x, y) panics with ErrNaN for 0/0 and Inf/Inf
FloatQuoPanics(x, y) ==
  \/ x.form = "zero" /\ y.form = "zero"
  \/ x.form = "inf" /\ y.form = "inf"

\* z.Quo(x, y): the quotient rounded to z's precision
FloatQuo(zprec, x, y) ==
  LET prec == resultPrec(zprec, x, y)
      neg  == x.neg # y.neg
  IN IF x.form = "zero" \/ y.form = "inf" THEN FloatZero(neg, prec)
     ELSE IF x.form = "inf" \/ y.form = "zero" THEN FloatInf(neg, prec)
     ELSE LET s == Max(0, prec + 2 + natBitLen(y.mant) - natBitLen(x.mant))
              d == natDiv(natShl(x.mant, s), y.mant)
          IN FloatRound(neg, prec, d.q, lsbExp(x) - s - lsbExp(y),
                        IF Len(d.r) = 0 THEN 0 ELSE 1).x

\* z.Mul(x, y) panics with ErrNaN for 0 * Inf
FloatMulPanics(x, y) ==
  \/ x.form = "zero" /\ y.form = "inf"
  \/ x.form = "inf" /\ y.form = "zero"

\* z.Mul(x, y): the product rounded to z's precision
FloatMul(zprec, x, y) ==
  LET prec == resultPrec(zprec, x, y)
      neg  == x.neg # y.neg
  IN IF x.form = "inf" \/ y.form = "inf" THEN FloatInf(neg, prec)
     ELSE IF x.form = "zero" \/ y.form = "zero" THEN FloatZero(neg, prec)
     ELSE FloatRound(neg, prec, natMul(x.mant, y.mant), lsbExp(x) + lsbExp(y), 0).x

\* -1, 0 or 1 as |x| is below, equal to or above |y|, both finite
ucmp(x, y) ==
  IF x.exp # y.exp THEN (IF x.exp < y.exp THEN -1 ELSE 1)
  ELSE LET e == Min(lsbExp(x), lsbExp(y))
       IN natCmp(natShl(x.mant, lsbExp(x) - e), natShl(y.mant, lsbExp(y) - e))

\* the order class of x: -2 for -Inf, -1 negative, 0 zero, 1 positive, 2 +Inf
ord(x) ==
  IF x.form = "zero" THEN 0
  ELSE IF x.form = "inf" THEN (IF x.neg THEN -2 ELSE 2)
  ELSE (IF x.neg THEN -1 ELSE 1)

\* x.Cmp(y) on values other than NaN
FloatCmp(x, y) ==
  IF ord(x) < ord(y) THEN -1
  ELSE IF ord(x) > ord(y) THEN 1
  ELSE IF ord(x) = 1 THEN ucmp(x, y)
  ELSE IF ord(x) = -1 THEN ucmp(y, x)
  ELSE 0

\* x.Sign()
FloatSign(x) == IF x.form = "zero" THEN 0 ELSE IF x.neg THEN -1 ELSE 1

\* z.Sub(x, y) panics with ErrNaN for infinities of equal sign
FloatSubPanics(x, y) == x.form = "inf" /\ y.form = "inf" /\ x.neg = y.neg

\* z.Sub(x, y): the difference rounded to z's precision
FloatSub(zprec, x, y) ==
  LET prec == resultPrec(zprec, x, y) IN
  IF x.form = "inf" THEN FloatInf(x.neg, prec)
  ELSE IF y.form = "inf" THEN FloatInf(~y.neg, prec)
  ELSE IF y.form = "zero" THEN
         (IF x.form = "zero" THEN FloatZero(x.neg /\ ~y.neg, prec)
          ELSE FloatRound(x.neg, prec, x.mant, lsbExp(x), 0).x)
  ELSE IF x.form = "zero" THEN FloatRound(~y.neg, prec, y.mant, lsbExp(y), 0).x
  ELSE LET e == Min(lsbExp(x), lsbExp(y))
           a == natShl(x.mant, lsbExp(x) - e)
           b == natShl(y.mant, lsbExp(y) - e)
       IN IF x.neg # y.neg
          THEN FloatRound(x.neg, prec, natAdd(a, b), e, 0).x
          ELSE IF natCmp(a, b) = 0 THEN FloatZero(FALSE, prec)
          ELSE IF natCmp(a, b) > 0
          THEN FloatRound(x.neg, prec, natSub(a, b), e, 0).x
          ELSE FloatRound(~x.neg, prec, natSub(b, a), e, 0).x

\* x.Int(z): x truncated towards zero, stored in z (the value z held when x
\* is an infinity: Int then returns nil and leaves z alone)
FloatInt(x, z) ==
  IF x.form = "inf" THEN z
  ELSE IF x.form = "zero" THEN IntOf(FALSE, <<>>)
  ELSE IF lsbExp(x) >= 0 THEN IntOf(x.neg, natShl(x.mant, lsbExp(x)))
  ELSE IntOf(x.neg, natShr(x.mant, 0 - lsbExp(x)))

\* ------------------------------------------------------------------------
\* float64: narrowing and machine arithmetic (IEEE 754 binary64)
\* ------------------------------------------------------------------------

\* the exponent range of float64 (math/big float.go, Float64: emin, emax)
F64Emin == 0 - 1022
F64Emax == 1024 - 1

\* the smallest denormal 2^-1074 (math.SmallestNonzeroFloat64)
SmallestNonzeroFloat64(neg) == FloatOf(neg, 53, <<1>>, F64Emin - 52)

\* Rounding of (m + s) * 2^e2 (m # 0, sticky bit as for FloatRound) to the
\* nearest float64, as (*big.Float).Float64 does it: fewer mantissa bits
\* below 2^-1022, zero below half the smallest denormal, an infinity above
\* the largest finite value; returns the float64 and the accuracy
roundFloat64(neg, m, e2, sbit) ==
  LET e == e2 + natBitLen(m) - 1
      p == IF e < F64Emin THEN 53 - F64Emin + e ELSE 53
  IN IF p < 0 \/ (p = 0 /\ sbit = 0 /\ natSticky(m, natBitLen(m) - 1) = 0)
     THEN [f |-> FloatZero(neg, 53), acc |-> IF neg THEN "Above" ELSE "Below"]
     ELSE IF p = 0
     THEN [f |-> SmallestNonzeroFloat64(neg), acc |-> IF neg THEN "Below" ELSE "Above"]
     ELSE LET r == FloatRound(neg, p, m, e2, sbit)
          IN IF r.x.exp - 1 > F64Emax
             THEN [f |-> FloatInf(neg, 53), acc |-> IF neg THEN "Below" ELSE "Above"]
             ELSE [f |-> [r.x EXCEPT !.prec = 53], acc |-> r.acc]

\* x.Float64(): the float64 nearest to x and the accuracy of the narrowing
\* (Below: the float64 is smaller than x, Above: larger)
FloatFloat64(x) ==
  IF x.form = "finite" THEN roundFloat64(x.neg, x.mant, lsbExp(x), 0)
  ELSE [f |-> [x EXCEPT !.prec = 53], acc |-> "Exact"]

\* float64(n) for an int64 n held as a *big.Int
Float64OfInt(i) ==
  IF Len(i.abs) = 0 THEN FloatZero(FALSE, 53)
  ELSE roundFloat64(i.neg, i.abs, 0, 0).f

\* a / b in float64
Float64Quo(a, b) ==
  IF a.form = "nan" \/ b.form = "nan" THEN NaN
  ELSE IF (a.form = "zero" /\ b.form = "zero") \/ (a.form = "inf" /\ b.form = "inf")
  THEN NaN
  ELSE IF a.form = "zero" \/ b.form = "inf" THEN FloatZero(a.neg # b.neg, 53)
  ELSE IF a.form = "inf" \/ b.form = "zero" THEN FloatInf(a.neg # b.neg, 53)
  ELSE LET s == Max(0, 55 + natBitLen(b.mant) - natBitLen(a.mant))
           d == natDiv(natShl(a.mant, s), b.mant)
       IN roundFloat64(a.neg # b.neg, d.q, lsbExp(a) - s - lsbExp(b),
                       IF Len(d.r) = 0 THEN 0 ELSE 1).f

\* a * b in float64
Float64Mul(a, b) ==
  IF a.form = "nan" \/ b.form = "nan" THEN NaN
  ELSE IF (a.form = "zero" /\ b.form = "inf") \/ (a.form = "inf" /\ b.form = "zero")
  THEN NaN
  ELSE IF a.form = "inf" \/ b.form = "inf" THEN FloatInf(a.neg # b.neg, 53)
  ELSE IF a.form = "zero" \/ b.form = "zero" THEN FloatZero(a.neg # b.neg, 53)
  ELSE roundFloat64(a.neg # b.neg, natMul(a.mant, b.mant), lsbExp(a) + lsbExp(b), 0).f

\* a < b in float64: false when either is NaN
Float64Less(a, b) == a.form # "nan" /\ b.form # "nan" /\ FloatCmp(a, b) < 0

\* a == b in float64: false when either is NaN, and -0 == +0
Float64Eq(a, b) == a.form # "nan" /\ b.form # "nan" /\ FloatCmp(a, b) = 0

\* math.IsNaN(f), math.IsInf(f, 0)
IsNaN(f) == f.form = "nan"
IsInf(f) == f.form = "inf"

\* the float64 literals of the source: exact decimal constants narrowed by
\* the compiler to the nearest float64
Float64Zero == FloatZero(FALSE, 53)
Float64Lit1e18 == roundFloat64(FALSE, natExp10(18), 0, 0).f
Float64Lit1eMinus17 == Float64Quo(FloatOf(FALSE, 53, <<1>>, 0), roundFloat64(FALSE, natExp10(17), 0, 0).f)
Float64LitHalf == FloatOf(FALSE, 53, <<1>>, 0 - 1)

\* ------------------------------------------------------------------------
\* safemath.go: the scale caches and the conversions over them
\* ------------------------------------------------------------------------

\* the exponents cached at package initialisation
CommonStable == 14
CommonWei == 18

\* pow10Cache at package initialisation: exponent -> 10^exponent
InitPow10Cache ==
  [k \in {CommonStable, CommonWei} |-> IntExp10(k)]

\* pow10FloatCache initialised without the stablecoin exponent
InitPow10FloatCacheOnlyWei ==
  [k \in {CommonWei} |-> FloatSetInt(InitPow10Cache[k])]

\* pow10FloatCache at package initialisation
InitPow10FloatCache ==
  [k \in {CommonStable, CommonWei} |-> FloatSetInt(InitPow10Cache[k])]

\* m[k] = v on a Go map
MapSet(m, k, v) == [x \in DOMAIN m \cup {k} |-> IF x = k THEN v ELSE m[x]]

\* what a call returns and leaves behind: the float64, *big.Int or
\* *big.Float returned, the error, whether the call panicked, and the two
\* caches after the call
Ret(val, int, flt, err, fault, c, fc) ==
  [val |-> val, int |-> int, flt |-> flt, str |-> "", err |-> err,
   fault |-> fault, c |-> c, fc |-> fc]

RetFloat64(val, err, c, fc) == Ret(val, NilInt, Float64Zero, err, FALSE, c, fc)
RetInt(int, err, c, fc) == Ret(Float64Zero, int, Float64Zero, err, FALSE, c, fc)
RetFloat(flt, c, fc) == Ret(Float64Zero, NilInt, flt, "", FALSE, c, fc)
RetPanic(c, fc) == Ret(Float64Zero, NilInt, Float64Zero, "", TRUE, c, fc)
RetString(str, c, fc) ==
  [val |-> Float64Zero, int |-> NilInt, flt |-> Float64Zero, str |-> str,
   err |-> "", fault |-> FALSE, c |-> c, fc |-> fc]

\* the error values
ErrNegativeInput == "negative input not allowed"
ErrPrecisionLoss == "precision loss in conversion"
ErrInvalidInput == "invalid input value"

\* BigInt2BigFloat(i, decimal): i / 10^decimal as a *big.Float
BigInt2BigFloat(i, decimal, c, fc) ==
  IF i.nil THEN RetFloat(FloatSetFloat64(Float64Zero), c, fc)
  ELSE LET fi  == FloatSetInt(i)
           ok  == decimal \in DOMAIN fc
           div == IF ok THEN fc[decimal] ELSE FloatSetInt(IntExp10(decimal))
           fc1 == IF ok THEN fc ELSE MapSet(fc, decimal, div)
       IN RetFloat(FloatQuo(0, fi, div), c, fc1)

\* seeded fault for C2: BigInt2Float converting before it looks at the sign
BigInt2FloatLateCheck(i, decimal, c, fc) ==
  IF i.nil THEN RetFloat64(Float64Zero, ErrInvalidInput, c, fc)
  ELSE LET f == BigInt2BigFloat(i, decimal, c, fc)
           n == FloatFloat64(f.flt)
       IN IF IntSign(i) < 0
          THEN RetFloat64(Float64Zero, ErrNegativeInput, f.c, f.fc)
          ELSE IF n.acc = "Above"
          THEN RetFloat64(Float64Zero, ErrPrecisionLoss, f.c, f.fc)
          ELSE RetFloat64(n.f, "", f.c, f.fc)

\* BigInt2Float(i, decimal)
BigInt2Float(i, decimal, c, fc) ==
  IF i.nil THEN RetFloat64(Float64Zero, ErrInvalidInput, c, fc)
  ELSE IF IntSign(i) < 0 THEN RetFloat64(Float64Zero, ErrNegativeInput, c, fc)
  ELSE LET f == BigInt2BigFloat(i, decimal, c, fc)
           n == FloatFloat64(f.flt)
       IN IF n.acc = "Above"
          THEN RetFloat64(Float64Zero, ErrPrecisionLoss, f.c, f.fc)
          ELSE RetFloat64(n.f, "", f.c, f.fc)

\* the float64 literal 0.001
Float64LitMilli == Float64Quo(FloatOf(FALSE, 53, <<1>>, 0), roundFloat64(FALSE, natExp10(3), 0, 0).f)

\* the precision diagnostic of FloatToBigIntBaseX (it only computes a
\* condition under which a warning was once logged): whether it panics
precisionCheckPanics(result, coin, val) ==
  LET v == FloatSetFloat64(val) IN
  \/ FloatQuoPanics(FloatSetInt(result), coin)
  \/ /\ FloatCmp(FloatQuo(0, FloatSetInt(result), coin), v) # 0
     /\ \/ FloatSubPanics(FloatQuo(0, FloatSetInt(result), coin), v)
        \/ FloatMulPanics(v, FloatSetFloat64(Float64LitMilli))

\* FloatToBigIntBaseX(val, y): truncate(val * 10^y)
FloatToBigIntBaseX(val, y, c, fc) ==
  IF Float64Less(val, Float64Zero) THEN RetInt(NewInt(0), "", c, fc)
  ELSE IF IsNaN(val) THEN RetPanic(c, fc)
  ELSE LET bigval == FloatSetFloat64(val)
           ok     == y \in DOMAIN c
           k      == IF ok THEN c[y] ELSE IntExp10(y)
           c1     == IF ok THEN c ELSE MapSet(c, y, k)
           coin   == FloatSetInt(k)
           result == FloatInt(FloatMul(bigval.prec, bigval, coin), NewInt(0))
       IN IF FloatMulPanics(bigval, coin) \/ precisionCheckPanics(result, coin, val)
          THEN RetPanic(c1, fc)
          ELSE RetInt(result, "", c1, fc)

\* math.MaxInt64 converted to float64
Float64MaxInt64 == roundFloat64(FALSE, MaxInt64, 0, 0).f

\* int64(f) for a float64 inside the int64 range: truncation
Int64OfFloat64(f) == FloatInt(f, NewInt(0))

\* the largest exponent of the fast path of BigIntBaseX
FastPathMaxY == 14

\* BigIntBaseX(f, y)
BigIntBaseX(f, y, c, fc) ==
  IF Float64Less(f, Float64Zero) THEN RetInt(NewInt(0), "", c, fc)
  ELSE IF y <= FastPathMaxY /\ y \notin DOMAIN c
  THEN RetPanic(c, fc)  \* pow10Cache[y] is nil: Int64 dereferences it
  ELSE IF /\ y <= FastPathMaxY
          /\ Float64Less(f, Float64Quo(Float64MaxInt64, Float64OfInt(c[y])))
  THEN RetInt(Int64OfFloat64(Float64Mul(f, Float64OfInt(c[y]))), "", c, fc)
  ELSE FloatToBigIntBaseX(f, y, c, fc)

\* UnBaseX(f, y): f / 10^y, rounded down
UnBaseX(f, y, c, fc) ==
  IF f.nil \/ IntSign(f) < 0 THEN RetInt(NewInt(0), "", c, fc)
  ELSE LET ok == y \in DOMAIN c
           k  == IF ok THEN c[y] ELSE IntExp10(y)
           c1 == IF ok THEN c ELSE MapSet(c, y, k)
       IN RetInt(IntOf(FALSE, natDiv(f.abs, k.abs).q), "", c1, fc)

\* ------------------------------------------------------------------------
\* big.Float.Text(x, 'f', prec) and the strings package, on strings kept as
\* sequences of one-character strings
\* ------------------------------------------------------------------------

Digits == <<"0", "1", "2", "3", "4", "5", "6", "7", "8", "9">>

\* the four decimal digits of a word below 10^4
digits4(r) ==
  <<Digits[(r \div 1000) + 1], Digits[((r \div 100) % 10) + 1],
    Digits[((r \div 10) % 10) + 1], Digits[(r % 10) + 1]>>

RECURSIVE natDigits4(_)
\* the decimal digits of a, four at a time
natDigits4(a) ==
  IF Len(a) = 0 THEN <<>>
  ELSE natDigits4(natDivW(a, 10000).q) \o digits4(natDivW(a, 10000).r)

\* str without its leading characters ch
TrimLeft(str, ch) ==
  IF \A i \in 1..Len(str) : str[i] = ch THEN <<>>
  ELSE SubSeq(str, CHOOSE i \in 1..Len(str) :
                     str[i] # ch /\ \A j \in 1..(i - 1) : str[j] = ch,
              Len(str))

\* the decimal digits of a, most significant first; none for 0
natDigits(a) == TrimLeft(natDigits4(a), "0")

\* x * 10^prec rounded to the nearest integer, ties to even: the decimal
\* mantissa of x rounded at prec fractional digits
FloatScaled(x, prec) ==
  IF lsbExp(x) >= 0
  THEN natShl(natMul(x.mant, natExp10(prec)), lsbExp(x))
  ELSE LET n == natMul(x.mant, natExp10(prec))
           k == 0 - lsbExp(x)
           q == natShr(n, k)
       IN IF /\ natBit(n, k - 1) = 1
             /\ (natSticky(n, k - 1) = 1 \/ natBit(q, 0) = 1)
          THEN natAdd(q, <<1>>)
          ELSE q

\* the integer digits ds with a point before the last prec of them
fmtF(ds, prec) ==
  LET pad == IF Len(ds) > prec THEN ds
             ELSE [i \in 1..(prec + 1 - Len(ds)) |-> "0"] \o ds
      n   == Len(pad) - prec
  IN IF prec = 0 THEN pad
     ELSE SubSeq(pad, 1, n) \o <<".">> \o SubSeq(pad, n + 1, Len(pad))

\* x.Text('f', prec) for prec >= 0
FloatText(x, prec) ==
  IF x.form = "inf"
  THEN (IF x.neg THEN <<"-">> ELSE <<"+">>) \o <<"I", "n", "f">>
  ELSE (IF x.neg THEN <<"-">> ELSE <<>>)
         \o fmtF(IF x.form = "zero" THEN <<>>
                 ELSE natDigits(FloatScaled(x, prec)), prec)

Contains(str, ch) == \E i \in 1..Len(str) : str[i] = ch

\* str without its trailing characters ch
TrimRight(str, ch) ==
  IF \A i \in 1..Len(str) : str[i] = ch THEN <<>>
  ELSE SubSeq(str, 1, CHOOSE i \in 1..Len(str) :
                        str[i] # ch /\ \A j \in (i + 1)..Len(str) : str[j] = ch)

HasSuffix(str, ch) == Len(str) > 0 /\ str[Len(str)] = ch

RECURSIVE String(_)
\* the string of a sequence of characters
String(str) ==
  IF Len(str) = 0 THEN ""
  ELSE IF Len(str) = 1 THEN str[1]
  ELSE String(SubSeq(str, 1, Len(str) \div 2))
         \o String(SubSeq(str, (Len(str) \div 2) + 1, Len(str)))

\* the largest number of decimals UnBaseXFloatString shows
MaxShowDec == 100

\* a clean-up that strips trailing zeros whether or not there is a point
TrimZerosAnywhere(str) ==
  IF HasSuffix(TrimRight(str, "0"), ".")
  THEN Append(TrimRight(str, "0"), "0")
  ELSE TrimRight(str, "0")

\* the clean-up of trailing zeros of UnBaseXFloatString
TrimZeros(str) ==
  IF ~Contains(str, ".") THEN str
  ELSE IF HasSuffix(TrimRight(str, "0"), ".")
  THEN Append(TrimRight(str, "0"), "0")
  ELSE TrimRight(str, "0")

\* UnBaseXFloatString that formats a negative integer like any other
UnBaseXFloatStringNilOnly(f, y, show_dec, c, fc) ==
  IF f.nil THEN RetString("0", c, fc)
  ELSE LET d   == IF show_dec > MaxShowDec THEN MaxShowDec ELSE show_dec
           flo == FloatSetInt(f)
           ok  == y \in DOMAIN fc
           div == IF ok THEN fc[y] ELSE FloatSetInt(IntExp10(y))
           fc1 == IF ok THEN fc ELSE MapSet(fc, y, div)
       IN RetString(String(TrimZeros(FloatText(FloatQuo(flo.prec, flo, div), d))),
                    c, fc1)

\* UnBaseXFloatString that shows as many decimals as it is asked for
UnBaseXFloatStringNoLimit(f, y, show_dec, c, fc) ==
  IF f.nil \/ IntSign(f) < 0 THEN RetString("0", c, fc)
  ELSE LET flo == FloatSetInt(f)
           ok  == y \in DOMAIN fc
           div == IF ok THEN fc[y] ELSE FloatSetInt(IntExp10(y))
           fc1 == IF ok THEN fc ELSE MapSet(fc, y, div)
       IN RetString(String(TrimZeros(FloatText(FloatQuo(flo.prec, flo, div),
                                               show_dec))),
                    c, fc1)

\* UnBaseXFloatString(f, y, show_dec), for show_dec >= 0
UnBaseXFloatString(f, y, show_dec, c, fc) ==
  IF f.nil \/ IntSign(f) < 0 THEN RetString("0", c, fc)
  ELSE LET d   == IF show_dec > MaxShowDec THEN MaxShowDec ELSE show_dec
           flo == FloatSetInt(f)
           ok  == y \in DOMAIN fc
           div == IF ok THEN fc[y] ELSE FloatSetInt(IntExp10(y))
           fc1 == IF ok THEN fc ELSE MapSet(fc, y, div)
       IN RetString(String(TrimZeros(FloatText(FloatQuo(flo.prec, flo, div), d))),
                    c, fc1)

\* seeded fault for C5: ProcessFloatToDecimalAdjustment without its test
\* for a negative amount
ProcessFloatNoClamp(decimal64b, state_amt, c, fc) ==
  IF IsNaN(state_amt) THEN RetPanic(c, fc)
  ELSE IF FloatMulPanics(FloatSetFloat64(state_amt),
                         FloatSetInt(IntExp10(decimal64b)))
  THEN RetPanic(c, fc)
  ELSE RetInt(FloatInt(FloatMul(53, FloatSetFloat64(state_amt),
                                FloatSetInt(IntExp10(decimal64b))),
                       NewInt(0)), "", c, fc)

\* ProcessFloatToDecimalAdjustment(decimal64b, state_amt)
ProcessFloatToDecimalAdjustment(decimal64b, state_amt, c, fc) ==
  IF Float64Less(state_amt, Float64Zero) THEN RetInt(NewInt(0), "", c, fc)
  ELSE IF IsNaN(state_amt) THEN RetPanic(c, fc)
  ELSE LET f    == FloatSetFloat64(state_amt)
           powF == FloatSetInt(IntExp10(decimal64b))
       IN IF FloatMulPanics(f, powF) THEN RetPanic(c, fc)
          ELSE RetInt(FloatInt(FloatMul(f.prec, f, powF), NewInt(0)), "", c, fc)

\* ------------------------------------------------------------------------
\* number.go: Wei <-> Ether
\* ------------------------------------------------------------------------

ErrWeiNil == "wei value is nil"
ErrWeiNegative == "negative wei value is invalid"
ErrWeiPrecision == "precision loss during conversion to float64"
ErrWeiTooLarge == "wei value too large for precise float64 conversion"
ErrEtherInvalid == "invalid ether value: NaN or Inf"
ErrEtherNegative == "negative ether value is invalid"
ErrEtherPrecision == "precision loss during conversion to Wei"

\* etherDivisor = big.NewFloat(1e18)
etherDivisor == FloatSetFloat64(Float64Lit1e18)

\* maxSafeWei = 2^53 * 10^18
maxSafeWei == IntOf(FALSE, natMul(natShl(<<1>>, 53), natExp10(18)))

\* seeded fault for C1: the narrowing rejected when it rounds down
narrowEtherBelow(wei, divisor, c, fc) ==
  LET n == FloatFloat64(FloatQuo(0, FloatSetInt(wei), divisor))
  IN IF n.acc = "Below" THEN RetFloat64(Float64Zero, ErrWeiPrecision, c, fc)
     ELSE RetFloat64(n.f, "", c, fc)

\* wei / 1e18 narrowed to float64, rejected when the narrowing rounds up
\* (the tail shared by the three Wei-to-Ether conversions)
narrowEther(wei, divisor, c, fc) ==
  LET n == FloatFloat64(FloatQuo(0, FloatSetInt(wei), divisor))
  IN IF n.acc = "Above" THEN RetFloat64(Float64Zero, ErrWeiPrecision, c, fc)
     ELSE RetFloat64(n.f, "", c, fc)

\* WeiToEther(wei)
WeiToEther(wei, c, fc) ==
  IF wei.nil THEN RetFloat64(Float64Zero, ErrWeiNil, c, fc)
  ELSE IF IntSign(wei) < 0 THEN RetFloat64(Float64Zero, ErrWeiNegative, c, fc)
  ELSE narrowEther(wei, FloatSetFloat64(Float64Lit1e18), c, fc)

\* maxSafeInt64 := int64(9.223372036854775807e18): the constant is exactly
\* 2^63 - 1
maxSafeInt64 == IntOf(FALSE, MaxInt64)

\* seeded fault for C7: WeiToEtherOptimized without its fast path
WeiToEtherOptimizedNoFastPath(wei, c, fc) == WeiToEther(wei, c, fc)

\* seeded fault for C8: WeiToEtherOptimized taking the fast path for every
\* wei, as if float64(wei) were taken of the *big.Int itself
WeiToEtherOptimizedMachineOnly(wei, c, fc) ==
  IF wei.nil THEN RetFloat64(Float64Zero, ErrWeiNil, c, fc)
  ELSE IF IntSign(wei) < 0 THEN RetFloat64(Float64Zero, ErrWeiNegative, c, fc)
  ELSE IF /\ ~Float64Eq(Float64Quo(Float64OfInt(wei), Float64Lit1e18), Float64Zero)
          /\ Float64Less(Float64Quo(Float64OfInt(wei), Float64Lit1e18),
                         Float64Lit1eMinus17)
  THEN RetFloat64(Float64Zero, ErrWeiPrecision, c, fc)
  ELSE RetFloat64(Float64Quo(Float64OfInt(wei), Float64Lit1e18), "", c, fc)

\* WeiToEtherOptimized(wei)
WeiToEtherOptimized(wei, c, fc) ==
  IF wei.nil THEN RetFloat64(Float64Zero, ErrWeiNil, c, fc)
  ELSE IF IntSign(wei) < 0 THEN RetFloat64(Float64Zero, ErrWeiNegative, c, fc)
  ELSE IF IsInt64(wei) /\ IntCmp(wei, maxSafeInt64) <= 0
  THEN LET result == Float64Quo(Float64OfInt(wei), Float64Lit1e18)
       IN IF ~Float64Eq(result, Float64Zero) /\ Float64Less(result, Float64Lit1eMinus17)
          THEN RetFloat64(Float64Zero, ErrWeiPrecision, c, fc)
          ELSE RetFloat64(result, "", c, fc)
  ELSE narrowEther(wei, etherDivisor, c, fc)

\* seeded fault for C6: WeiToEtherSafe without its test against maxSafeWei
WeiToEtherSafeNoLimit(wei, c, fc) ==
  IF wei.nil THEN RetFloat64(Float64Zero, ErrWeiNil, c, fc)
  ELSE IF IntSign(wei) < 0 THEN RetFloat64(Float64Zero, ErrWeiNegative, c, fc)
  ELSE narrowEther(wei, etherDivisor, c, fc)

\* WeiToEtherSafe(wei)
WeiToEtherSafe(wei, c, fc) ==
  IF wei.nil THEN RetFloat64(Float64Zero, ErrWeiNil, c, fc)
  ELSE IF IntSign(wei) < 0 THEN RetFloat64(Float64Zero, ErrWeiNegative, c, fc)
  ELSE IF IntCmp(wei, maxSafeWei) > 0
  THEN RetFloat64(Float64Zero, ErrWeiTooLarge, c, fc)
  ELSE narrowEther(wei, etherDivisor, c, fc)

\* EtherToWei(ether)
EtherToWei(ether, c, fc) ==
  IF IsNaN(ether) \/ IsInf(ether) THEN RetInt(NilInt, ErrEtherInvalid, c, fc)
  ELSE IF Float64Less(ether, Float64Zero) THEN RetInt(NilInt, ErrEtherNegative, c, fc)
  ELSE LET weiFloat  == FloatMul(0, FloatSetFloat64(ether), etherDivisor)
           wei       == FloatInt(weiFloat, NewInt(0))
           remainder == FloatSub(0, weiFloat, FloatSetInt(wei))
       IN IF /\ FloatSign(remainder) # 0
             /\ FloatCmp(FloatMul(0, remainder, FloatSetFloat64(Float64Lit1e18)),
                         FloatSetFloat64(Float64LitHalf)) >= 0
          THEN RetInt(NilInt, ErrEtherPrecision, c, fc)
          ELSE RetInt(wei, "", c, fc)

\* ------------------------------------------------------------------------
\* bigint.go: the arithmetic of the BigInt wrapper.  A wrapper is the
\* *big.Int it embeds: NilInt in the null state.  The wrappers of a call
\* are a sequence ws; b, x and y are positions in it, so that the receiver
\* may be one of the operands
\* ------------------------------------------------------------------------

\* (*big.Int).Neg, Add, Sub, Mul on non-nil values
IntNeg(a) == IntOf(~a.neg, a.abs)

IntAdd(a, b) ==
  IF a.neg = b.neg THEN IntOf(a.neg, natAdd(a.abs, b.abs))
  ELSE IF natCmp(a.abs, b.abs) >= 0 THEN IntOf(a.neg, natSub(a.abs, b.abs))
  ELSE IntOf(b.neg, natSub(b.abs, a.abs))

IntSub(a, b) == IntAdd(a, IntNeg(b))

IntMul(a, b) == IntOf(a.neg # b.neg, natMul(a.abs, b.abs))

\* (*big.Int).Div for b # 0: Euclidean division, the quotient of QuoRem
\* moved one away from zero when the remainder is negative
IntDiv(a, b) ==
  IF a.neg /\ Len(natDiv(a.abs, b.abs).r) # 0
  THEN IntOf(~b.neg, natAdd(natDiv(a.abs, b.abs).q, <<1>>))
  ELSE IntOf(a.neg # b.neg, natDiv(a.abs, b.abs).q)

\* NewBigInt(x): a wrapper of a copy of x, the null state for a nil x
NewBigInt(x) == x

\* if b.Int == nil { b.Int = new(big.Int) }
AllocIfNil(ws, b) == IF ws[b].nil THEN [ws EXCEPT ![b] = NewInt(0)] ELSE ws

\* the wrappers after a call, and whether it panicked
ArithRet(ws, fault) == [ws |-> ws, fault |-> fault]

\* b.Int.Set(v): a nil v is dereferenced
SetInt(ws, b, v) ==
  IF v.nil THEN ArithRet(ws, TRUE) ELSE ArithRet([ws EXCEPT ![b] = v], FALSE)

\* the branches of Add once the receiver holds an allocation
AddInto(ws, b, x, y) ==
  IF ws[x].nil THEN SetInt(ws, b, ws[y])
  ELSE IF ws[y].nil THEN SetInt(ws, b, ws[x])
  ELSE ArithRet([ws EXCEPT ![b] = IntAdd(ws[x], ws[y])], FALSE)

\* b.Add(x, y)
Add(ws, b, x, y) == AddInto(AllocIfNil(ws, b), b, x, y)

\* the branches of Sub once the receiver holds an allocation
SubInto(ws, b, x, y) ==
  IF ws[x].nil
  THEN (IF ws[y].nil THEN ArithRet([ws EXCEPT ![b] = NewInt(0)], FALSE)
        ELSE ArithRet([ws EXCEPT ![b] = IntNeg(ws[y])], FALSE))
  ELSE IF ws[y].nil THEN SetInt(ws, b, ws[x])
  ELSE ArithRet([ws EXCEPT ![b] = IntSub(ws[x], ws[y])], FALSE)

\* b.Sub(x, y)
Sub(ws, b, x, y) == SubInto(AllocIfNil(ws, b), b, x, y)

\* the branches of Mul once the receiver holds an allocation
MulInto(ws, b, x, y) ==
  IF ws[x].nil \/ ws[y].nil THEN ArithRet([ws EXCEPT ![b] = NewInt(0)], FALSE)
  ELSE ArithRet([ws EXCEPT ![b] = IntMul(ws[x], ws[y])], FALSE)

\* b.Mul(x, y)
Mul(ws, b, x, y) == MulInto(AllocIfNil(ws, b), b, x, y)

\* Div that divides by a zero divisor: (*big.Int).Div panics
DivIntoUnguarded(ws, b, x, y) ==
  IF ws[x].nil \/ ws[y].nil THEN ArithRet([ws EXCEPT ![b] = NewInt(0)], FALSE)
  ELSE IF IntSign(ws[y]) = 0 THEN ArithRet(ws, TRUE)
  ELSE ArithRet([ws EXCEPT ![b] = IntDiv(ws[x], ws[y])], FALSE)

\* the branches of Div once the receiver holds an allocation
DivInto(ws, b, x, y) ==
  IF ws[x].nil \/ ws[y].nil \/ IntSign(ws[y]) = 0
  THEN ArithRet([ws EXCEPT ![b] = NewInt(0)], FALSE)
  ELSE ArithRet([ws EXCEPT ![b] = IntDiv(ws[x], ws[y])], FALSE)

\* b.Div(x, y)
Div(ws, b, x, y) == DivInto(AllocIfNil(ws, b), b, x, y)

\* ------------------------------------------------------------------------
\* bigint.go: UnmarshalJSON and MarshalJSON of the BigInt wrapper over
\* BigIntPool.  A JSON document is its kind and content: a number is
\* (-1)^neg * (abs + 1/2 if half), a string is its characters.  The memory
\* m is the heap of *big.Int allocations (address -> value), the set of
\* addresses BigIntPool holds, and the address each wrapper's Int field
\* points to (NilAddr for nil)
\* ------------------------------------------------------------------------

JSONDoc(kind, neg, abs, half, str) ==
  [kind |-> kind, neg |-> neg, abs |-> abs, half |-> half, str |-> str]
JSONInvalid == JSONDoc("invalid", FALSE, <<>>, FALSE, <<>>)
JSONNull == JSONDoc("null", FALSE, <<>>, FALSE, <<>>)
JSONBool == JSONDoc("bool", FALSE, <<>>, FALSE, <<>>)
JSONNumber(neg, abs, half) == JSONDoc("number", neg, abs, half, <<>>)
JSONString(str) == JSONDoc("string", FALSE, <<>>, FALSE, str)

\* the errors UnmarshalJSON returns
ErrJSON == "json: invalid input"
ErrSyntax == "invalid syntax"

\* json.Unmarshal of a number into interface{}: the nearest float64
\* (strconv.ParseFloat)
NumberFloat64(data) ==
  IF data.half THEN roundFloat64(data.neg, natAdd(natMulW(data.abs, 2), <<1>>), 0 - 1, 0).f
  ELSE IF Len(data.abs) = 0 THEN FloatZero(data.neg, 53)
  ELSE roundFloat64(data.neg, data.abs, 0, 0).f

\* json.Unmarshal(data, &val) fails: no JSON, or a number float64 cannot hold
JSONFails(data) ==
  \/ data.kind = "invalid"
  \/ data.kind = "number" /\ IsInf(NumberFloat64(data))

\* the digits of the alphabet of SetString, by value: 0-9, a-f
DigitChars ==
  <<"0", "1", "2", "3", "4", "5", "6", "7", "8", "9", "a", "b", "c", "d", "e", "f">>
UpperChars == <<"A", "B", "C", "D", "E", "F">>

\* the value of ch as a digit, 36 when it is none in any base here
digitVal(ch) ==
  IF \E i \in 1..Len(DigitChars) : DigitChars[i] = ch
  THEN (CHOOSE i \in 1..Len(DigitChars) : DigitChars[i] = ch) - 1
  ELSE IF \E i \in 1..Len(UpperChars) : UpperChars[i] = ch
  THEN (CHOOSE i \in 1..Len(UpperChars) : UpperChars[i] = ch) + 9
  ELSE 36

\* how many leading characters of str are digits of the base
digitPrefix(str, base) ==
  IF \A i \in 1..Len(str) : digitVal(str[i]) < base THEN Len(str)
  ELSE (CHOOSE i \in 1..Len(str) :
          digitVal(str[i]) >= base /\ \A j \in 1..(i - 1) : digitVal(str[j]) < base) - 1

RECURSIVE natScan(_, _, _)
\* nat.scan: the number the first n characters of str spell in the base
natScan(str, n, base) ==
  IF n = 0 THEN <<>>
  ELSE CHOOSE z \in {natAdd(natMulW(a, base), natSet(digitVal(str[n]))) :
                       a \in {natScan(str, n - 1, base)}} : TRUE

\* the string has a sign
hasSign(str) == Len(str) > 0 /\ str[1] \in {"+", "-"}
unsigned(str) == IF hasSign(str) THEN Tail(str) ELSE str

\* z.SetString(str, base) for base 10 or 16: whether it succeeded and what z
\* holds afterwards.  The scan takes a sign and the longest run of digits;
\* it fails when there is no digit (z keeps its sign and its magnitude
\* becomes 0) or when characters are left over (z holds what was scanned)
IntSetString(z, str, base) ==
  IF digitPrefix(unsigned(str), base) = 0
  THEN [ok |-> FALSE, val |-> [nil |-> FALSE, neg |-> z.neg, abs |-> <<>>]]
  ELSE [ok  |-> digitPrefix(unsigned(str), base) = Len(unsigned(str)),
        val |-> IntOf(hasSign(str) /\ str[1] = "-",
                      natScan(unsigned(str), digitPrefix(unsigned(str), base), base))]

\* String without the sign
IntStringUnsigned(x) == IF Len(x.abs) = 0 THEN <<"0">> ELSE natDigits(x.abs)

\* (*big.Int).String: base 10, "-" before a negative value
IntString(x) ==
  IF Len(x.abs) = 0 THEN <<"0">>
  ELSE (IF x.neg THEN <<"-">> ELSE <<>>) \o natDigits(x.abs)

\* the integer a float64 with no fractional part is
IntegerOf(v) == FloatInt(v, NewInt(0))

\* math.Trunc(v) == v
IsIntegral(v) == v.form = "zero" \/ (v.form = "finite" /\ lsbExp(v) >= 0)

\* the most significant decimal digits a float64 needs
MaxShortestDigits == 17

\* the integer V rounded to n significant decimal digits, downwards
\* (up = 0) or upwards (up = 1)
decimalNear(V, n, up) ==
  natMul(natAdd(natDiv(V, natExp10(Len(natDigits(V)) - n)).q, natSet(up)),
         natExp10(Len(natDigits(V)) - n))

\* the decimals of up to 17 significant digits around V, each with the
\* number of its digits
decimalsNear(V) ==
  {[n |-> n, c |-> decimalNear(V, n, up)] :
     n \in 1..MaxShortestDigits, up \in {0, 1}}

\* the decimal c reads back as the float64 |v|
readsBack(c, v) == roundFloat64(FALSE, c, 0, 0).f = [v EXCEPT !.neg = FALSE]

\* the distance between the decimal c and V
distance(c, V) == IF natCmp(c, V) >= 0 THEN natSub(c, V) ELSE natSub(V, c)

\* of the decimals R, one with the fewest digits, and of those the nearest
\* to V
shortestOf(R, V) ==
  CHOOSE x \in R :
    \A y \in R :
      x.n < y.n \/ (x.n = y.n /\ natCmp(distance(x.c, V), distance(y.c, V)) <= 0)

\* the shortest decimal that reads back as v, the nearest to V = |v| of
\* that length
shortestNear(V, v) ==
  CHOOSE c \in {shortestOf(R, V).c :
                  R \in {{x \in decimalsNear(V) : readsBack(x.c, v)}}} : TRUE

\* the shortest decimal that reads back as the integral v, |v| >= 10^17
shortestDecimal(v) ==
  CHOOSE c \in {shortestNear(V, v) : V \in {IntegerOf(v).abs}} : TRUE

\* v <= math.MaxInt64 && v >= math.MinInt64, the bounds converted to float64
\* (2^63 and -2^63)
InInt64Bounds(v) ==
  /\ ~Float64Less(Float64MaxInt64, v)
  /\ ~Float64Less(v, [Float64MaxInt64 EXCEPT !.neg = TRUE])

\* strconv.FormatFloat(v, 'f', -1, 64) for a finite v outside the int64
\* range or with a fractional part: the shortest decimal that reads back as
\* v, for a v with a fractional part its exact expansion (the two are the
\* same for the halves the inputs hold)
FormatFloat(v) ==
  IF IsIntegral(v)
  THEN (IF v.neg THEN <<"-">> ELSE <<>>) \o natDigits(shortestDecimal(v))
  ELSE FloatText(v, 0 - lsbExp(v))

\* what int64(v) may be for v = 2^63, which int64 cannot hold: the
\* conversion is implementation-dependent (the smallest int64 on amd64, the
\* largest on arm64)
Int64Overflows == {IntOf(TRUE, MinInt64Abs), IntOf(FALSE, MaxInt64)}

\* int64(v) for an integral v within the bounds; ov is what the build
\* yields where int64 cannot hold v
Int64Conv(v, ov) == IF IsInt64(IntegerOf(v)) THEN IntegerOf(v) ELSE ov

\* a wrapper whose Int field is nil
NilAddr == 0

\* the memory with the value val at address p
Store(m, p, val) == [m EXCEPT !.heap[p] = val]

\* b.Int = BigIntPool.Get().(*big.Int): the instance p leaves the pool, or
\* is a new zero big.Int when the pool did not hold it; gets and puts count
\* the calls of Get and Put the running call has made
Get(m, b, p) ==
  IF p \in m.pool
  THEN [m EXCEPT !.pool = @ \ {p}, !.wrappers[b] = p, !.gets = @ + 1]
  ELSE [m EXCEPT !.heap[p] = NewInt(0), !.wrappers[b] = p, !.gets = @ + 1]

\* BigIntPool.Put(b.Int)
Put(m, b) == [m EXCEPT !.pool = @ \cup {m.wrappers[b]}, !.puts = @ + 1]

\* b.Int = nil
SetNil(m, b) == [m EXCEPT !.wrappers[b] = NilAddr]

\* what UnmarshalJSON returns and the memory it leaves
JSONRet(m, err) == [m |-> m, err |-> err]

\* seeded fault for C29: a failing exit that keeps the instance
FailWithoutPut(m, b) == JSONRet(m, ErrSyntax)

\* the instance goes back to the pool and the call fails
PutAndFail(m, b) == JSONRet(Put(m, b), ErrSyntax)

\* the outcome of b.Int.SetString(str, base) stored in the instance
Scanned(m, b, str, base) ==
  Store(m, m.wrappers[b], IntSetString(m.heap[m.wrappers[b]], str, base).val)
ScanOK(m, b, str, base) == IntSetString(m.heap[m.wrappers[b]], str, base).ok

\* b.Int.SetString(str, 10) on the text of a float64
UnmarshalText(m, b, str) ==
  IF ScanOK(m, b, str, 10) THEN JSONRet(Scanned(m, b, str, 10), "")
  ELSE PutAndFail(Scanned(m, b, str, 10), b)

\* case float64
UnmarshalFloat64(m, b, v, ov) ==
  IF IsNaN(v) \/ IsInf(v) THEN PutAndFail(m, b)
  ELSE IF IsIntegral(v) /\ InInt64Bounds(v)
  THEN JSONRet(Store(m, m.wrappers[b], Int64Conv(v, ov)), "")
  ELSE CHOOSE r \in {UnmarshalText(m, b, str) : str \in {FormatFloat(v)}} : TRUE

\* strings.HasPrefix(v, "0x")
HasPrefix0x(str) == Len(str) >= 2 /\ str[1] = "0" /\ str[2] = "x"

\* the base-16 attempt on a string base 10 did not parse
UnmarshalHex(m, b, str) ==
  IF HasPrefix0x(str) /\ ScanOK(m, b, SubSeq(str, 3, Len(str)), 16)
  THEN JSONRet(Scanned(m, b, SubSeq(str, 3, Len(str)), 16), "")
  ELSE IF HasPrefix0x(str)
  THEN PutAndFail(Scanned(m, b, SubSeq(str, 3, Len(str)), 16), b)
  ELSE PutAndFail(m, b)

\* case string, with an empty string taken for zero
UnmarshalStringEmptyIsZero(m, b, str) ==
  IF Len(str) = 0 THEN JSONRet(m, "")
  ELSE IF ScanOK(m, b, str, 10) THEN JSONRet(Scanned(m, b, str, 10), "")
  ELSE UnmarshalHex(Scanned(m, b, str, 10), b, str)

\* case string: str is the string with its quote characters trimmed
UnmarshalString(m, b, str) ==
  IF Len(str) = 0 THEN JSONRet(SetNil(Put(m, b), b), "")
  ELSE IF ScanOK(m, b, str, 10) THEN JSONRet(Scanned(m, b, str, 10), "")
  ELSE UnmarshalHex(Scanned(m, b, str, 10), b, str)

\* the switch on the decoded value
UnmarshalValue(m, b, data, ov) ==
  IF data.kind = "number" THEN UnmarshalFloat64(m, b, NumberFloat64(data), ov)
  ELSE IF data.kind = "string"
  THEN UnmarshalString(m, b, TrimRight(TrimLeft(data.str, "\""), "\""))
  ELSE IF data.kind = "null" THEN JSONRet(SetNil(Put(m, b), b), "")
  ELSE PutAndFail(m, b)

\* an instance taken from the pool keeps the value it was released with
KeepValue(m, b) == m

\* b.Int.SetInt64(0)
Reset(m, b) == Store(m, m.wrappers[b], NewInt(0))

\* b.UnmarshalJSON(data), with p the instance Get returns
UnmarshalJSON(m, b, data, p, ov) ==
  IF JSONFails(data) THEN JSONRet(m, ErrJSON)
  ELSE UnmarshalValue(Reset(Get(m, b, p), b), b, data, ov)

\* b.Int = new(big.Int), with p the address of the allocation
New(m, b, p) == [m EXCEPT !.heap[p] = NewInt(0), !.wrappers[b] = p]

\* b.SetString(s, base): whether it succeeded and the memory it leaves
SetString(m, b, str, base, p) ==
  [m  |-> Scanned(IF m.wrappers[b] = NilAddr THEN New(m, b, p) ELSE m,
                  b, str, base),
   ok |-> ScanOK(IF m.wrappers[b] = NilAddr THEN New(m, b, p) ELSE m,
                 b, str, base)]

\* b.MarshalJSON(): JSON null for a nil Int, else the string b.String()
MarshalJSON(m, b) ==
  IF m.wrappers[b] = NilAddr THEN JSONNull
  ELSE JSONString(IntString(m.heap[m.wrappers[b]]))

\* ------------------------------------------------------------------------
\* Inputs
\* ------------------------------------------------------------------------

\* Wei amounts 0..MaxSmallWei and whole ethers 0..MaxWholeEther are
\* enumerated; the other inputs are the values the tests and the
\* thresholds of the source name
MaxSmallWei == 10
MaxWholeEther == 3

Pow2(k) == IntOf(FALSE, natShl(<<1>>, k))
IntPlus(i, n) == IntOf(FALSE, natAdd(i.abs, natSet(n)))
WholeEther(n) == IntOf(FALSE, natMul(natSet(n), natExp10(18)))

\* whole-ether amounts below 2^53 ether
WholeEtherInputs ==
  {WholeEther(n) : n \in (1..MaxWholeEther) \cup {2363, 123456, 123456789}}
    \cup {IntOf(FALSE, natMul(natSub(natShl(<<1>>, 53), <<1>>), natExp10(18)))}

WeiInputs ==
  {NilInt, NewInt(0 - 1), IntOf(TRUE, natExp10(18))}
    \cup {NewInt(n) : n \in 0..MaxSmallWei}
    \cup {NewInt(123456), IntOf(FALSE, natMulW(natExp10(17), 5))}
    \cup WholeEtherInputs
    \cup {Pow2(54), IntOf(FALSE, MaxInt64), Pow2(63), IntPlus(Pow2(63), 1), Pow2(64)}
    \cup {maxSafeWei, IntPlus(maxSafeWei, 1), IntOf(FALSE, natMulW(maxSafeWei.abs, 2))}

\* the float64 nearest to n / 10^k, for n < 2^53 and k <= 22 (both exact)
Float64Dec(n, k) ==
  Float64Quo(Float64OfInt(NewInt(n)), Float64OfInt(IntOf(FALSE, natExp10(k))))
Float64Neg(f) == [f EXCEPT !.neg = ~f.neg]

PosInf == FloatInf(FALSE, 53)
NegInf == FloatInf(TRUE, 53)

EtherInputs ==
  {NaN, PosInf, NegInf, Float64Neg(Float64Dec(1, 0)), Float64Neg(Float64Zero)}
    \cup {Float64Dec(n, 0) : n \in (0..MaxWholeEther) \cup {2363, 123456}}
    \cup {Float64Dec(5, 1), Float64Dec(15, 1), Float64Dec(123456, 18),
          Float64Dec(1, 18), Float64Dec(1, 19), Float64Dec(123456789, 8)}

FloatInputs ==
  {NaN, PosInf, NegInf, Float64Neg(Float64Dec(123, 2)), Float64Zero,
   Float64Dec(123456789, 8), Float64Dec(15, 1), Float64Dec(123, 2),
   Float64OfInt(IntOf(FALSE, natExp10(20))),
   SmallestNonzeroFloat64(FALSE)}

IntInputs ==
  {NilInt, NewInt(0 - 123), NewInt(0), NewInt(1), NewInt(123456789),
   IntOf(FALSE, natExp10(20)), IntOf(FALSE, natMulW(natExp10(18), 1234))}

\* the wrappers of an arithmetic call: NumBoxes of them, each null, zero,
\* small, negative or beyond a machine word
NumBoxes == 3
Boxes == 1..NumBoxes
BoxValues ==
  {NilInt, NewInt(0), NewInt(1), NewInt(2), NewInt(0 - 7), Pow2(64)}
BoxInputs == {[i \in Boxes |-> NewBigInt(f[i])] : f \in [Boxes -> BoxValues]}

\* the wrappers that are unmarshalled into and the addresses their
\* big.Int allocations take
NumWrappers == 2
Wrappers == 1..NumWrappers
MaxAllocs == 2
Addrs == 1..MaxAllocs

\* JSON numbers: small ones, one with a fractional part, the first integer
\* float64 cannot hold, the bounds of int64 and numbers beyond them
JSONNumbers ==
  {JSONNumber(FALSE, <<>>, FALSE), JSONNumber(FALSE, <<5>>, FALSE),
   JSONNumber(TRUE, <<3>>, FALSE), JSONNumber(FALSE, <<1>>, TRUE),
   JSONNumber(FALSE, natAdd(natShl(<<1>>, 53), <<1>>), FALSE),
   JSONNumber(FALSE, MinInt64Abs, FALSE), JSONNumber(TRUE, MinInt64Abs, FALSE),
   JSONNumber(FALSE, natShl(<<1>>, 64), FALSE)}

\* JSON strings: empty, a lone quote character, base 10 with and without
\* sign and beyond int64, base 16 with its prefix, and strings no base
\* parses
JSONStrings ==
  {JSONString(<<>>), JSONString(<<"\"">>), JSONString(<<"0">>),
   JSONString(<<"3", "1">>), JSONString(<<"-", "5">>),
   JSONString(natDigits(natShl(<<1>>, 64))),
   JSONString(<<"0", "x", "1", "f">>), JSONString(<<"0", "x">>),
   JSONString(<<"0", "X", "1", "F">>), JSONString(<<"1", "2", "a">>),
   JSONString(<<"a", "b", "c">>)}

JSONInputs == {JSONInvalid, JSONNull, JSONBool} \cup JSONNumbers \cup JSONStrings

\* the documents unmarshalled over and over through the pool: null, one of
\* an unsupported type, a number, a string that parses, one that does not
\* and leaves 12 behind, and the empty string
PoolInputs ==
  {JSONNull, JSONBool, JSONNumber(FALSE, <<5>>, FALSE), JSONString(<<"3", "1">>),
   JSONString(<<"1", "2", "a">>), JSONString(<<>>)}

\* the values wrappers and pooled instances hold before a single call
StartValues ==
  {NewInt(0), NewInt(5), NewInt(0 - 3), IntOf(TRUE, MinInt64Abs), Pow2(64)}

\* scale exponents: the two cached at initialisation, one below and one
\* above them that are not
Exps == {6, CommonStable, CommonWei, 20}

\* numbers of decimals to show: none, the two of the examples, the largest
\* shown and one above it
ShowDecs == {0, 2, 8, MaxShowDec, MaxShowDec + 1}

\* ------------------------------------------------------------------------
\* The pointers of safemath.go: the cache entries are *big.Int and
\* *big.Float values shared by every call, and a conversion returns a
\* pointer; the address says whose allocation a pointer refers to
\* ------------------------------------------------------------------------

\* the allocation a call makes for its result: new(big.Int), big.NewInt,
\* new(big.Float)
NewAlloc == [kind |-> "new", key |-> 0]

\* the allocation held by pow10Cache[y]
IntEntry(y) == [kind |-> "pow10Cache", key |-> y]

\* the allocation held by pow10FloatCache[y]
FloatEntry(y) == [kind |-> "pow10FloatCache", key |-> y]

\* no pointer: the call panicked
NoResult == [kind |-> "none", key |-> 0]

\* the caches, the allocation of the call and the pointer the call holds
Allocated(c, fc, obj) ==
  [c |-> c, fc |-> fc, at |-> NewAlloc, obj |-> obj, fault |-> FALSE]

\* *a
Deref(m, a) ==
  IF a.kind = "pow10Cache" THEN m.c[a.key]
  ELSE IF a.kind = "pow10FloatCache" THEN m.fc[a.key]
  ELSE m.obj

\* *a = v
Assign(m, a, v) ==
  IF a.kind = "pow10Cache" THEN [m EXCEPT !.c[a.key] = v]
  ELSE IF a.kind = "pow10FloatCache" THEN [m EXCEPT !.fc[a.key] = v]
  ELSE [m EXCEPT !.obj = v]

\* the call with outcome r writes its result v through the receiver a and
\* returns a
StoreResult(r, a, v) ==
  IF r.fault
  THEN [c |-> r.c, fc |-> r.fc, at |-> NoResult, obj |-> NilInt, fault |-> TRUE]
  ELSE Assign([c |-> r.c, fc |-> r.fc, at |-> a, obj |-> NilInt, fault |-> FALSE],
              a, v)

\* seeded fault for C27: UnBaseX dividing into the cached factor,
\* k.Div(f, k)
UnBaseXReceiverIsFactor(f, y) ==
  IF f.nil \/ IntSign(f) < 0 THEN NewAlloc ELSE IntEntry(y)

\* the receiver of the result of UnBaseX: big.NewInt(0) for a nil or
\* negative f, new(big.Int) of new(big.Int).Div(f, k) otherwise
UnBaseXReceiver(f, y) == NewAlloc

\* UnBaseX with the pointer it returns
UnBaseXAt(f, y, c, fc) ==
  CHOOSE m \in {StoreResult(r, UnBaseXReceiver(f, y), r.int) :
                  r \in {UnBaseX(f, y, c, fc)}} : TRUE

\* FloatToBigIntBaseX with the pointer it returns: big.NewInt(0) or
\* result := new(big.Int)
FloatToBigIntBaseXAt(val, y, c, fc) ==
  CHOOSE m \in {StoreResult(r, NewAlloc, r.int) :
                  r \in {FloatToBigIntBaseX(val, y, c, fc)}} : TRUE

\* BigIntBaseX with the pointer it returns: big.NewInt(0),
\* big.NewInt(int64(f * float64(multiplier))) or that of FloatToBigIntBaseX
BigIntBaseXAt(f, y, c, fc) ==
  CHOOSE m \in {StoreResult(r, NewAlloc, r.int) :
                  r \in {BigIntBaseX(f, y, c, fc)}} : TRUE

\* BigInt2BigFloat with the pointer it returns: new(big.Float).Quo(fi, div)
BigInt2BigFloatAt(i, decimal, c, fc) ==
  CHOOSE m \in {StoreResult(r, NewAlloc, r.flt) :
                  r \in {BigInt2BigFloat(i, decimal, c, fc)}} : TRUE

\* z.Div(z, big.NewInt(n)) on the pointer z the call holds
DivInPlace(m, n) ==
  IF m.fault THEN m ELSE Assign(m, m.at, IntDiv(Deref(m, m.at), NewInt(n)))

\* z.Mul(z, x) on the pointer z the call holds
MulInPlace(m, x) ==
  IF m.fault THEN m ELSE Assign(m, m.at, IntMul(Deref(m, m.at), x))

\* BigIntBase14Percent(f)
BigIntBase14Percent(f, c, fc) ==
  DivInPlace(BigIntBaseXAt(f, CommonStable, c, fc), 100)

\* FloatToBigIntBaseXPercent(f, y)
FloatToBigIntBaseXPercent(f, y, c, fc) ==
  DivInPlace(FloatToBigIntBaseXAt(f, y, c, fc), 100)

HOURLY_COUNT == 8640
HOURS_DAILY == 24

\* b := new(big.Int).Div(f, big.NewInt(n)); return b.Mul(b, hour)
RateFor(f, hour, n, c, fc) ==
  IF f.nil \/ hour.nil THEN Allocated(c, fc, NewInt(0))
  ELSE MulInPlace(Allocated(c, fc, IntDiv(f, NewInt(n))), hour)

\* BigIntHrAPR(f, hour)
BigIntHrAPR(f, hour, c, fc) == RateFor(f, hour, HOURLY_COUNT, c, fc)

\* BigIntDailyBase(f, hour)
BigIntDailyBase(f, hour, c, fc) == RateFor(f, hour, HOURS_DAILY, c, fc)

\* ------------------------------------------------------------------------
\* State
\* ------------------------------------------------------------------------

\* the goroutines of the concurrent callers
NumGoroutines == 2
Goroutines == 1..NumGoroutines

VARIABLES
  pow10Cache,       \* the package variable pow10Cache
  pow10FloatCache,  \* the package variable pow10FloatCache
  last,             \* the call the caller made last and what it returned
  goroutines,       \* where each concurrent caller is in its call
  fatal,            \* the error that ended the process, "" while it runs
  arith,            \* the last arithmetic call on BigInt wrappers
  heap,             \* the big.Int allocations of the wrappers: address -> value
  BigIntPool,       \* the package variable BigIntPool: the addresses it holds
  wrappers,         \* the Int field of each BigInt wrapper: an address or nil
  lastJSON,         \* the last JSON call on a wrapper and what it returned
  held              \* the pointer the last conversion returned to its caller

\* the state of the conversions and the state of the BigInt wrappers
convVars == <<pow10Cache, pow10FloatCache, last, goroutines, fatal>>
boxVars == <<arith, heap, BigIntPool, wrappers, lastJSON>>
vars == <<convVars, boxVars, held>>

Idle ==
  [op |-> "none", i |-> NilInt, f |-> Float64Zero, y |-> 0, d |-> 0,
   val |-> Float64Zero, int |-> NilInt, flt |-> Float64Zero, str |-> "",
   err |-> "", fault |-> FALSE]

\* a goroutine outside any call
Waiting == [pc |-> "idle", op |-> "none", y |-> 0, lookups |-> 0]

\* no arithmetic call in progress
IdleArith ==
  [op |-> "none", ws |-> <<>>, b |-> 0, x |-> 0, y |-> 0, after |-> <<>>,
   fault |-> FALSE]

\* no JSON call made yet
IdleJSON ==
  [op |-> "none", b |-> 0, to |-> 0, data |-> JSONNull, p |-> NilAddr,
   pooled |-> FALSE, held |-> NilInt, was |-> NilInt, err |-> "",
   out |-> JSONNull, gets |-> 0, puts |-> 0, ok |-> TRUE]

\* the caller holds no result
NoHeld ==
  [op |-> "none", at |-> NoResult, obj |-> NilInt, wrote |-> FALSE,
   fault |-> FALSE]

Init ==
  /\ pow10Cache = InitPow10Cache
  /\ pow10FloatCache = InitPow10FloatCache
  /\ last = Idle
  /\ goroutines = [g \in Goroutines |-> Waiting]
  /\ fatal = ""
  /\ arith = IdleArith
  /\ heap = [a \in Addrs |-> NewInt(0)]
  /\ BigIntPool = {}
  /\ wrappers = [w \in Wrappers |-> NilAddr]
  /\ lastJSON = IdleJSON
  /\ held = NoHeld

\* the caller calls op and the call runs to its return or panic
CalledWith(op, i, f, y, d, r) ==
  /\ last.op = "none"
  /\ pow10Cache' = r.c
  /\ pow10FloatCache' = r.fc
  /\ last' = [op |-> op, i |-> i, f |-> f, y |-> y, d |-> d,
              val |-> r.val, int |-> r.int, flt |-> r.flt, str |-> r.str,
              err |-> r.err, fault |-> r.fault]
  /\ UNCHANGED <<goroutines, fatal, boxVars, held>>

Called(op, i, f, y, r) == CalledWith(op, i, f, y, 0, r)

CallBigInt2Float(i, decimal) ==
  Called("BigInt2Float", i, Float64Zero, decimal,
         BigInt2Float(i, decimal, pow10Cache, pow10FloatCache))

CallBigInt2BigFloat(i, decimal) ==
  Called("BigInt2BigFloat", i, Float64Zero, decimal,
         BigInt2BigFloat(i, decimal, pow10Cache, pow10FloatCache))

CallFloatToBigIntBaseX(val, y) ==
  Called("FloatToBigIntBaseX", NilInt, val, y,
         FloatToBigIntBaseX(val, y, pow10Cache, pow10FloatCache))

CallBigIntBaseX(f, y) ==
  Called("BigIntBaseX", NilInt, f, y,
         BigIntBaseX(f, y, pow10Cache, pow10FloatCache))

CallUnBaseX(f, y) ==
  Called("UnBaseX", f, Float64Zero, y,
         UnBaseX(f, y, pow10Cache, pow10FloatCache))

CallUnBaseXFloatString(f, y, show_dec) ==
  CalledWith("UnBaseXFloatString", f, Float64Zero, y, show_dec,
             UnBaseXFloatString(f, y, show_dec, pow10Cache, pow10FloatCache))

CallProcessFloatToDecimalAdjustment(decimal64b, state_amt) ==
  Called("ProcessFloatToDecimalAdjustment", NilInt, state_amt, decimal64b,
         ProcessFloatToDecimalAdjustment(decimal64b, state_amt,
                                         pow10Cache, pow10FloatCache))

CallWeiToEther(wei) ==
  Called("WeiToEther", wei, Float64Zero, CommonWei,
         WeiToEther(wei, pow10Cache, pow10FloatCache))

CallWeiToEtherOptimized(wei) ==
  Called("WeiToEtherOptimized", wei, Float64Zero, CommonWei,
         WeiToEtherOptimized(wei, pow10Cache, pow10FloatCache))

CallWeiToEtherSafe(wei) ==
  Called("WeiToEtherSafe", wei, Float64Zero, CommonWei,
         WeiToEtherSafe(wei, pow10Cache, pow10FloatCache))

CallEtherToWei(ether) ==
  Called("EtherToWei", NilInt, ether, CommonWei,
         EtherToWei(ether, pow10Cache, pow10FloatCache))

\* TestRoundTripConversion: WeiToEther, then EtherToWei on its result; a
\* failing first step ends the round trip with that error
RoundTripResult(e, w) ==
  Ret(e.val, w.int, Float64Zero, w.err, FALSE, w.c, w.fc)

RoundTripBack(e) ==
  IF e.err # "" THEN e
  ELSE RoundTripResult(e, EtherToWei(e.val, e.c, e.fc))

RoundTrip(wei, c, fc) == RoundTripBack(WeiToEther(wei, c, fc))

CallRoundTrip(wei) ==
  Called("RoundTrip", wei, Float64Zero, CommonWei,
         RoundTrip(wei, pow10Cache, pow10FloatCache))

\* the caller takes the result and goes on
Return ==
  /\ last.op # "none"
  /\ last' = Idle
  /\ UNCHANGED <<pow10Cache, pow10FloatCache, goroutines, fatal, boxVars, held>>

Next ==
  \/ \E i \in IntInputs, y \in Exps : CallBigInt2Float(i, y)
  \/ \E i \in IntInputs, y \in Exps : CallBigInt2BigFloat(i, y)
  \/ \E f \in FloatInputs, y \in Exps : CallFloatToBigIntBaseX(f, y)
  \/ \E f \in FloatInputs, y \in Exps : CallBigIntBaseX(f, y)
  \/ \E i \in IntInputs, y \in Exps : CallUnBaseX(i, y)
  \/ \E i \in IntInputs, y \in Exps, show_dec \in ShowDecs :
       CallUnBaseXFloatString(i, y, show_dec)
  \/ \E f \in FloatInputs, y \in Exps : CallProcessFloatToDecimalAdjustment(y, f)
  \/ \E wei \in WeiInputs : CallWeiToEther(wei)
  \/ \E wei \in WeiInputs : CallWeiToEtherOptimized(wei)
  \/ \E wei \in WeiInputs : CallWeiToEtherSafe(wei)
  \/ \E ether \in EtherInputs : CallEtherToWei(ether)
  \/ \E wei \in WeiInputs : CallRoundTrip(wei)
  \/ Return

Spec == Init /\ [][Next]_vars

\* ------------------------------------------------------------------------
\* Concurrent callers (TestThreadSafety): each goroutine calls the
\* conversions with a finite non-negative argument; a call is followed
\* through its accesses to the cache maps, which take time: a lookup or an
\* insert begins, and later ends
\* ------------------------------------------------------------------------

ConcurrentOps ==
  {"BigInt2BigFloat", "FloatToBigIntBaseX", "BigIntBaseX", "UnBaseX",
   "UnBaseXFloatString"}

\* the cache map a conversion looks its exponent up in
MapOf(op) ==
  IF op \in {"BigInt2BigFloat", "UnBaseXFloatString"} THEN "pow10FloatCache"
  ELSE "pow10Cache"

\* the keys of a cache map
Keys(m) == IF m = "pow10Cache" THEN DOMAIN pow10Cache ELSE DOMAIN pow10FloatCache

\* another goroutine is in the middle of an insert into the map g accesses
WriterBeside(g) ==
  \E h \in Goroutines \ {g} :
    /\ goroutines[h].pc = "write"
    /\ MapOf(goroutines[h].op) = MapOf(goroutines[g].op)

\* what a lookup of y that ends now may find: the key as the map holds it,
\* or either answer while an insert of that key is under way
Found(g) ==
  IF \E h \in Goroutines \ {g} :
       /\ goroutines[h].pc = "write"
       /\ MapOf(goroutines[h].op) = MapOf(goroutines[g].op)
       /\ goroutines[h].y = goroutines[g].y
  THEN BOOLEAN
  ELSE {goroutines[g].y \in Keys(MapOf(goroutines[g].op))}

\* goroutine g calls op with exponent y
Go(g, op, y) ==
  /\ fatal = ""
  /\ goroutines[g].pc = "idle"
  /\ goroutines' = [goroutines EXCEPT
                      ![g] = [pc |-> "call", op |-> op, y |-> y, lookups |-> 0]]
  /\ UNCHANGED <<pow10Cache, pow10FloatCache, last, fatal, boxVars, held>>

\* the lookup m[y] begins
BeginRead(g) ==
  /\ fatal = ""
  /\ goroutines[g].pc = "call"
  /\ goroutines' = [goroutines EXCEPT ![g].pc = "read"]
  /\ UNCHANGED <<pow10Cache, pow10FloatCache, last, fatal, boxVars, held>>

\* BigIntBaseX with y <= 14 looks pow10Cache[y] up twice: in the test of
\* its fast path and again inside it
LookupsOf(op, y) == IF op = "BigIntBaseX" /\ y <= FastPathMaxY THEN 2 ELSE 1

\* the lookup ends with a hit: the call goes on to its next lookup, or to
\* its arithmetic
EndReadHit(g) ==
  /\ fatal = ""
  /\ goroutines[g].pc = "read"
  /\ TRUE \in Found(g)
  /\ goroutines' =
       [goroutines EXCEPT
          ![g].lookups = @ + 1,
          ![g].pc = IF goroutines[g].lookups + 1
                         < LookupsOf(goroutines[g].op, goroutines[g].y)
                    THEN "call" ELSE "done"]
  /\ UNCHANGED <<pow10Cache, pow10FloatCache, last, fatal, boxVars, held>>

\* the lookup ends with a miss: the call computes 10^y to insert it
EndReadMiss(g) ==
  /\ fatal = ""
  /\ goroutines[g].pc = "read"
  /\ FALSE \in Found(g)
  /\ ~(goroutines[g].op = "BigIntBaseX" /\ goroutines[g].y <= FastPathMaxY)
  /\ goroutines' = [goroutines EXCEPT ![g].pc = "miss"]
  /\ UNCHANGED <<pow10Cache, pow10FloatCache, last, fatal, boxVars, held>>

\* BigIntBaseX finds no pow10Cache[y] for y <= 14 and calls Int64 on nil
NilDereference(g) ==
  /\ fatal = ""
  /\ goroutines[g].pc = "read"
  /\ FALSE \in Found(g)
  /\ goroutines[g].op = "BigIntBaseX" /\ goroutines[g].y <= FastPathMaxY
  /\ fatal' = "nil pointer dereference"
  /\ UNCHANGED <<pow10Cache, pow10FloatCache, last, goroutines, boxVars, held>>

\* the insert m[y] = 10^y begins
BeginWrite(g) ==
  /\ fatal = ""
  /\ goroutines[g].pc = "miss"
  /\ goroutines' = [goroutines EXCEPT ![g].pc = "write"]
  /\ UNCHANGED <<pow10Cache, pow10FloatCache, last, fatal, boxVars, held>>

\* the insert ends
EndWrite(g) ==
  /\ fatal = ""
  /\ goroutines[g].pc = "write"
  /\ IF MapOf(goroutines[g].op) = "pow10Cache"
     THEN /\ pow10Cache' = MapSet(pow10Cache, goroutines[g].y,
                                  IntExp10(goroutines[g].y))
          /\ UNCHANGED pow10FloatCache
     ELSE /\ pow10FloatCache' = MapSet(pow10FloatCache, goroutines[g].y,
                                       FloatSetInt(IntExp10(goroutines[g].y)))
          /\ UNCHANGED pow10Cache
  /\ goroutines' = [goroutines EXCEPT ![g].pc = "done"]
  /\ UNCHANGED <<last, fatal, boxVars, held>>

\* the runtime notices a map access beside an insert and ends the process
\* (it notices some of them, not all)
Throw(g) ==
  /\ fatal = ""
  /\ goroutines[g].pc \in {"read", "write"}
  /\ WriterBeside(g)
  /\ fatal' = IF goroutines[g].pc = "write" THEN "concurrent map writes"
              ELSE "concurrent map read and map write"
  /\ UNCHANGED <<pow10Cache, pow10FloatCache, last, goroutines, boxVars, held>>

\* the call returns
Finish(g) ==
  /\ fatal = ""
  /\ goroutines[g].pc = "done"
  /\ goroutines' = [goroutines EXCEPT ![g] = Waiting]
  /\ UNCHANGED <<pow10Cache, pow10FloatCache, last, fatal, boxVars, held>>

NextConc ==
  \E g \in Goroutines :
    \/ \E op \in ConcurrentOps, y \in Exps : Go(g, op, y)
    \/ BeginRead(g)
    \/ EndReadHit(g)
    \/ EndReadMiss(g)
    \/ NilDereference(g)
    \/ BeginWrite(g)
    \/ EndWrite(g)
    \/ Throw(g)
    \/ Finish(g)

SpecConc == Init /\ [][NextConc]_vars

\* ------------------------------------------------------------------------
\* Arithmetic on BigInt wrappers: the caller builds wrappers with NewBigInt
\* and calls Add, Sub, Mul or Div with a receiver and two operands among
\* them
\* ------------------------------------------------------------------------

CallArith(op, ws, b, x, y, r) ==
  /\ arith.op = "none"
  /\ arith' = [op |-> op, ws |-> ws, b |-> b, x |-> x, y |-> y,
               after |-> r.ws, fault |-> r.fault]
  /\ UNCHANGED <<convVars, held, heap, BigIntPool, wrappers, lastJSON>>

CallAdd(ws, b, x, y) == CallArith("Add", ws, b, x, y, Add(ws, b, x, y))
CallSub(ws, b, x, y) == CallArith("Sub", ws, b, x, y, Sub(ws, b, x, y))
CallMul(ws, b, x, y) == CallArith("Mul", ws, b, x, y, Mul(ws, b, x, y))
CallDiv(ws, b, x, y) == CallArith("Div", ws, b, x, y, Div(ws, b, x, y))

\* the caller takes the result and goes on
ArithReturn ==
  /\ arith.op # "none"
  /\ arith' = IdleArith
  /\ UNCHANGED <<convVars, held, heap, BigIntPool, wrappers, lastJSON>>

NextArith ==
  \/ /\ arith.op = "none"
     /\ \E ws \in BoxInputs, b \in Boxes, x \in Boxes, y \in Boxes :
          CallAdd(ws, b, x, y)
  \/ /\ arith.op = "none"
     /\ \E ws \in BoxInputs, b \in Boxes, x \in Boxes, y \in Boxes :
          CallSub(ws, b, x, y)
  \/ /\ arith.op = "none"
     /\ \E ws \in BoxInputs, b \in Boxes, x \in Boxes, y \in Boxes :
          CallMul(ws, b, x, y)
  \/ /\ arith.op = "none"
     /\ \E ws \in BoxInputs, b \in Boxes, x \in Boxes, y \in Boxes :
          CallDiv(ws, b, x, y)
  \/ ArithReturn

SpecArith == Init /\ [][NextArith]_vars

\* ------------------------------------------------------------------------
\* JSON on BigInt wrappers: UnmarshalJSON and MarshalJSON are called on
\* the wrappers in any order; sync.Pool hands out any instance it holds or
\* a new one, and drops what it holds when the garbage collector runs
\* ------------------------------------------------------------------------

\* the memory as the operations take it
Memory ==
  [heap |-> heap, pool |-> BigIntPool, wrappers |-> wrappers, gets |-> 0,
   puts |-> 0]

\* the value wrapper b holds in memory m: NilInt in the null state
ValueOf(m, b) ==
  IF m.wrappers[b] = NilAddr THEN NilInt ELSE m.heap[m.wrappers[b]]

\* the addresses a new allocation for wrapper b can take: those in no pool
\* and in no other wrapper (the one b gives up by the assignment included)
FreeAddrs(m, b) ==
  {a \in Addrs : a \notin m.pool /\ \A w \in Wrappers \ {b} : m.wrappers[w] # a}

\* what BigIntPool.Get() may return: any instance the pool holds, or the
\* new instance of New (the pool may be taken for empty)
Gettable(m, b) ==
  m.pool \cup {a \in FreeAddrs(m, b) : \A c \in FreeAddrs(m, b) : a <= c}

\* an allocation nothing refers to is garbage: its address stands for a
\* zero big.Int again
Collect(m) ==
  [m EXCEPT !.heap = [a \in Addrs |->
                        IF a \in m.pool \/ \E w \in Wrappers : m.wrappers[w] = a
                        THEN m.heap[a] ELSE NewInt(0)]]

\* the choices of int64(v) the call on data depends on
Int64Choices(data) ==
  IF /\ data.kind = "number" /\ ~JSONFails(data)
     /\ IsIntegral(NumberFloat64(data)) /\ InInt64Bounds(NumberFloat64(data))
     /\ ~IsInt64(IntegerOf(NumberFloat64(data)))
  THEN Int64Overflows ELSE {NewInt(0)}

\* a JSON call is made and runs to its return
JSONCalled(op, b, to, data, p, out, r) ==
  /\ heap' = Collect(r.m).heap
  /\ BigIntPool' = r.m.pool
  /\ wrappers' = r.m.wrappers
  /\ lastJSON' = [op |-> op, b |-> b, to |-> to, data |-> data, p |-> p,
                  pooled |-> p \in BigIntPool, held |-> heap[p],
                  was |-> ValueOf(Memory, b), err |-> r.err, out |-> out,
                  gets |-> r.m.gets, puts |-> r.m.puts, ok |-> r.err = ""]
  /\ UNCHANGED <<convVars, held, arith>>

CallUnmarshalJSON(b, data, p, ov) ==
  /\ p \in Gettable(Memory, b)
  /\ \E r \in {UnmarshalJSON(Memory, b, data, p, ov)} :
       JSONCalled("UnmarshalJSON", b, b, data, p, JSONNull, r)

CallMarshalJSON(b) ==
  JSONCalled("MarshalJSON", b, b, JSONNull, 1, MarshalJSON(Memory, b),
             JSONRet(Memory, ""))

\* JSON Handling in the README: a wrapper is marshalled and the output is
\* unmarshalled into a wrapper
CallRoundTripJSON(b, to, p, ov) ==
  /\ p \in Gettable(Memory, to)
  /\ \E out \in {MarshalJSON(Memory, b)} :
       \E r \in {UnmarshalJSON(Memory, to, out, p, ov)} :
         JSONCalled("RoundTripJSON", b, to, out, p, out, r)

\* the texts and bases SetString is called with
TextInputs == {d.str : d \in JSONStrings}
Bases == {10, 16}

\* b.SetString(str, base) is called and returns
CallSetString(b, str, base, p) ==
  /\ p \in Gettable(Memory, b) \ BigIntPool
  /\ \E r \in {SetString(Memory, b, str, base, p)} :
       /\ heap' = Collect(r.m).heap
       /\ wrappers' = r.m.wrappers
       /\ lastJSON' = [op |-> "SetString", b |-> b, to |-> b,
                       data |-> JSONString(str), p |-> p, pooled |-> FALSE,
                       held |-> heap[p], was |-> ValueOf(Memory, b),
                       err |-> "", out |-> JSONNull, gets |-> 0, puts |-> 0,
                       ok |-> r.ok]
  /\ UNCHANGED <<convVars, held, arith, BigIntPool>>

\* the garbage collector runs and the pool drops what it holds
PoolCleared ==
  /\ BigIntPool # {}
  /\ BigIntPool' = {}
  /\ heap' = Collect([Memory EXCEPT !.pool = {}]).heap
  /\ lastJSON' = IdleJSON
  /\ UNCHANGED <<convVars, held, arith, wrappers>>

\* wrappers are unmarshalled into over and over
NextJSON ==
  \/ \E b \in Wrappers, data \in PoolInputs, p \in Addrs :
       \E ov \in Int64Choices(data) : CallUnmarshalJSON(b, data, p, ov)
  \/ PoolCleared

SpecJSON == Init /\ [][NextJSON]_vars

\* the memories a single JSON call starts from: each wrapper null or with
\* an allocation of its own, the pool holding any of the other
\* allocations, each allocation with any value
InitOnce ==
  /\ pow10Cache = InitPow10Cache
  /\ pow10FloatCache = InitPow10FloatCache
  /\ last = Idle
  /\ goroutines = [g \in Goroutines |-> Waiting]
  /\ fatal = ""
  /\ arith = IdleArith
  /\ wrappers \in {w \in [Wrappers -> Addrs \cup {NilAddr}] :
                     \A a, c \in Wrappers : a # c /\ w[a] # NilAddr => w[a] # w[c]}
  /\ BigIntPool \in SUBSET {a \in Addrs : \A w \in Wrappers : wrappers[w] # a}
  /\ heap \in {h \in [Addrs -> StartValues] :
                 h = Collect([heap |-> h, pool |-> BigIntPool,
                              wrappers |-> wrappers]).heap}
  /\ lastJSON = IdleJSON
  /\ held = NoHeld

\* one JSON call on one of those memories
NextOnce ==
  \/ /\ lastJSON.op = "none"
     /\ \E b \in Wrappers, data \in JSONInputs, p \in Addrs :
          \E ov \in Int64Choices(data) : CallUnmarshalJSON(b, data, p, ov)
  \/ /\ lastJSON.op = "none"
     /\ \E b \in Wrappers : CallMarshalJSON(b)
  \/ /\ lastJSON.op = "none"
     /\ \E b \in Wrappers, to \in Wrappers, p \in Addrs :
          \E ov \in Int64Overflows : CallRoundTripJSON(b, to, p, ov)
  \/ /\ lastJSON.op = "none"
     /\ \E b \in Wrappers, str \in TextInputs, base \in Bases, p \in Addrs :
          CallSetString(b, str, base, p)

SpecOnce == InitOnce /\ [][NextOnce]_vars

\* ------------------------------------------------------------------------
\* The callers of the conversions that return pointers
\* ------------------------------------------------------------------------

\* the hour counts of the rate calculations
HourInputs == {NilInt, NewInt(1), NewInt(HOURS_DAILY)}

\* the caller calls op, which leaves the memory m and returns m.at
Returned(op, m) ==
  /\ held.op = "none"
  /\ pow10Cache' = m.c
  /\ pow10FloatCache' = m.fc
  /\ held' = [op |-> op, at |-> m.at, obj |-> m.obj, wrote |-> FALSE,
              fault |-> m.fault]
  /\ UNCHANGED <<last, goroutines, fatal, boxVars>>

ReturnedUnBaseX(f, y) ==
  Returned("UnBaseX", UnBaseXAt(f, y, pow10Cache, pow10FloatCache))

ReturnedFloatToBigIntBaseX(val, y) ==
  Returned("FloatToBigIntBaseX",
           FloatToBigIntBaseXAt(val, y, pow10Cache, pow10FloatCache))

ReturnedBigIntBaseX(f, y) ==
  Returned("BigIntBaseX", BigIntBaseXAt(f, y, pow10Cache, pow10FloatCache))

ReturnedBigInt2BigFloat(i, decimal) ==
  Returned("BigInt2BigFloat",
           BigInt2BigFloatAt(i, decimal, pow10Cache, pow10FloatCache))

CallBigIntBase14Percent(f) ==
  Returned("BigIntBase14Percent",
           BigIntBase14Percent(f, pow10Cache, pow10FloatCache))

CallFloatToBigIntBaseXPercent(f, y) ==
  Returned("FloatToBigIntBaseXPercent",
           FloatToBigIntBaseXPercent(f, y, pow10Cache, pow10FloatCache))

CallBigIntHrAPR(f, hour) ==
  Returned("BigIntHrAPR", BigIntHrAPR(f, hour, pow10Cache, pow10FloatCache))

CallBigIntDailyBase(f, hour) ==
  Returned("BigIntDailyBase",
           BigIntDailyBase(f, hour, pow10Cache, pow10FloatCache))

\* what the caller makes of the value it was returned: z.Add(z, one) on a
\* *big.Int, z.SetInt64(7) on a *big.Float
Changed(v) ==
  IF "prec" \in DOMAIN v THEN FloatSetInt(NewInt(7)) ELSE IntAdd(v, NewInt(1))

\* the memory the caller sees through the pointer it holds
HeldMemory ==
  [c |-> pow10Cache, fc |-> pow10FloatCache, at |-> held.at,
   obj |-> held.obj, fault |-> FALSE]

\* the caller changes the value it was returned, through the pointer
CallerWrites ==
  /\ held.at # NoResult
  /\ ~held.wrote
  /\ \E m \in {Assign(HeldMemory, held.at, Changed(Deref(HeldMemory, held.at)))} :
       /\ pow10Cache' = m.c
       /\ pow10FloatCache' = m.fc
       /\ held' = [held EXCEPT !.obj = m.obj, !.wrote = TRUE]
  /\ UNCHANGED <<last, goroutines, fatal, boxVars>>

\* the caller lets go of the result
Release ==
  /\ held.op # "none"
  /\ held' = NoHeld
  /\ UNCHANGED <<convVars, boxVars>>

NextAlias ==
  \/ \E i \in IntInputs, y \in Exps : ReturnedUnBaseX(i, y)
  \/ \E f \in FloatInputs, y \in Exps : ReturnedFloatToBigIntBaseX(f, y)
  \/ \E f \in FloatInputs, y \in Exps : ReturnedBigIntBaseX(f, y)
  \/ \E i \in IntInputs, y \in Exps : ReturnedBigInt2BigFloat(i, y)
  \/ \E f \in FloatInputs : CallBigIntBase14Percent(f)
  \/ \E f \in FloatInputs, y \in Exps : CallFloatToBigIntBaseXPercent(f, y)
  \/ \E i \in IntInputs, hour \in HourInputs : CallBigIntHrAPR(i, hour)
  \/ \E i \in IntInputs, hour \in HourInputs : CallBigIntDailyBase(i, hour)
  \/ CallerWrites
  \/ Release

SpecAlias == Init /\ [][NextAlias]_vars

\* ------------------------------------------------------------------------
\* Claims
\* ------------------------------------------------------------------------

\* the argument of the last call is an integer that is neither nil nor
\* negative
NonNegativeInt == ~last.i.nil /\ IntSign(last.i) >= 0

\* the argument of the last call is a float64 that is finite and not below
\* zero
NonNegativeFloat ==
  last.f.form = "zero" \/ (last.f.form = "finite" /\ ~last.f.neg)

\* the *big.Float quotient the last integer-to-double call narrows
Quotient ==
  FloatQuo(0, FloatSetInt(last.i),
           IF last.op = "BigInt2Float" THEN FloatSetInt(IntExp10(last.y))
           ELSE FloatSetFloat64(Float64Lit1e18))

\* the narrowing of the quotient is Above: the float64 is larger than the
\* quotient it stands for
RoundsUp == FloatCmp(FloatFloat64(Quotient).f, Quotient) > 0

\* the last call went through the *big.Float narrowing
ThroughBigFloat ==
  /\ last.op \in {"BigInt2Float", "WeiToEther", "WeiToEtherSafe",
                  "WeiToEtherOptimized"}
  /\ NonNegativeInt
  /\ last.op = "WeiToEtherOptimized" => ~IsInt64(last.i)

\* the last call answered as the classification of the narrowing says
AnsweredByAccuracy ==
  IF RoundsUp
  THEN /\ last.err = (IF last.op = "BigInt2Float" THEN ErrPrecisionLoss
                      ELSE ErrWeiPrecision)
       /\ last.val = Float64Zero
  ELSE last.err = "" /\ last.val = FloatFloat64(Quotient).f

\* C1 as stated: BigInt2Float, WeiToEther, WeiToEtherSafe and the slow path
\* of WeiToEtherOptimized return the precision-loss error with value 0
\* exactly when the narrowing of a non-nil, non-negative integer is Above,
\* and the double with no error when it is Below or Exact
C1_AccuracyDecides == ThroughBigFloat => AnsweredByAccuracy

\* C1 amended: the same, with WeiToEtherSafe held to it only for
\* wei <= 2^53 * 10^18 (above that it answers from the input alone, C6)
C1_AccuracyDecidesUpToLimit ==
  (ThroughBigFloat /\ ~(last.op = "WeiToEtherSafe" /\ IntCmp(last.i, maxSafeWei) > 0))
    => AnsweredByAccuracy

\* C1 witness: WeiToEtherSafe rejected a wei within the limit because the
\* narrowing rounded up
C1_Reached ==
  /\ last.op = "WeiToEtherSafe"
  /\ NonNegativeInt
  /\ IntCmp(last.i, maxSafeWei) <= 0
  /\ last.err = ErrWeiPrecision

\* C2: BigInt2Float, WeiToEther, WeiToEtherOptimized and WeiToEtherSafe
\* answer a nil integer with the null-input error and a negative integer
\* with the negative-input error, with value 0, and leave both caches as
\* they were
C2_NilThenNegative ==
  [][(/\ last.op = "none"
      /\ last'.op \in {"BigInt2Float", "WeiToEther", "WeiToEtherOptimized",
                       "WeiToEtherSafe"}
      /\ (last'.i.nil \/ IntSign(last'.i) < 0))
     => /\ last'.err =
             (IF last'.op = "BigInt2Float"
              THEN (IF last'.i.nil THEN ErrInvalidInput ELSE ErrNegativeInput)
              ELSE (IF last'.i.nil THEN ErrWeiNil ELSE ErrWeiNegative))
        /\ last'.val = Float64Zero
        /\ pow10Cache' = pow10Cache
        /\ pow10FloatCache' = pow10FloatCache]_vars

\* C2 witness: BigInt2Float refused a negative integer at an exponent that
\* no cache holds
C2_Reached ==
  /\ last.op = "BigInt2Float"
  /\ ~last.i.nil /\ IntSign(last.i) < 0
  /\ last.y \notin DOMAIN pow10FloatCache
  /\ last.err = ErrNegativeInput

\* C3: EtherToWei, FloatToBigIntBaseX, BigIntBaseX and
\* ProcessFloatToDecimalAdjustment answer NaN and the infinities with an
\* error or the integer zero: no panic, no non-zero integer
C3_NonFiniteRejected ==
  (/\ last.op \in {"EtherToWei", "FloatToBigIntBaseX", "BigIntBaseX",
                   "ProcessFloatToDecimalAdjustment"}
   /\ last.f.form \in {"nan", "inf"})
    => /\ ~last.fault
       /\ last.err # "" \/ last.int = NewInt(0)
       /\ last.int.nil \/ last.int = NewInt(0)

\* C3 witness: FloatToBigIntBaseX panicked on NaN
C3_Reached ==
  last.op = "FloatToBigIntBaseX" /\ last.f.form = "nan" /\ last.fault

\* C4: BigIntBaseX, FloatToBigIntBaseX, BigInt2BigFloat, UnBaseX and
\* UnBaseXFloatString return without a panic for every finite non-negative
\* argument and exponent >= 0 in every cache state, and BigInt2BigFloat
\* maps nil to zero
C4_BridgeNeverFaults ==
  /\ (last.op \in {"BigIntBaseX", "FloatToBigIntBaseX"} /\ NonNegativeFloat
        /\ last.y >= 0) => ~last.fault
  /\ (last.op \in {"BigInt2BigFloat", "UnBaseX", "UnBaseXFloatString"}
        /\ NonNegativeInt /\ last.y >= 0) => ~last.fault
  /\ (last.op = "BigInt2BigFloat" /\ last.i.nil)
       => ~last.fault /\ last.flt.form = "zero"

\* C4 witness: BigIntBaseX panicked on a finite positive amount at an
\* exponent below 15 that pow10Cache does not hold
C4_Reached ==
  /\ last.op = "BigIntBaseX"
  /\ last.f.form = "finite" /\ ~last.f.neg
  /\ last.y \notin DOMAIN pow10Cache
  /\ last.fault

\* C5: for a negative finite amount FloatToBigIntBaseX, BigIntBaseX and
\* ProcessFloatToDecimalAdjustment return the integer zero with no error
\* and no panic, and EtherToWei returns an error and no integer
C5_NegativeClampedOrRefused ==
  (last.f.form = "finite" /\ last.f.neg)
    => /\ last.op \in {"FloatToBigIntBaseX", "BigIntBaseX",
                       "ProcessFloatToDecimalAdjustment"}
            => last.int = NewInt(0) /\ last.err = "" /\ ~last.fault
       /\ last.op = "EtherToWei"
            => last.err = ErrEtherNegative /\ last.int.nil /\ ~last.fault

\* C5 witness: ProcessFloatToDecimalAdjustment returned zero for a negative
\* finite amount
C5_Reached ==
  /\ last.op = "ProcessFloatToDecimalAdjustment"
  /\ last.f.form = "finite" /\ last.f.neg
  /\ last.int = NewInt(0)

\* C6: WeiToEtherSafe answers every wei above 2^53 * 10^18 with the
\* too-large error and value 0, whatever the narrowing would have been,
\* and it also rejects the 2^54 wei of TestWeiToEtherSafe
C6_TooLargeRejected ==
  (last.op = "WeiToEtherSafe" /\ NonNegativeInt)
    => /\ IntCmp(last.i, maxSafeWei) > 0
            => last.err = ErrWeiTooLarge /\ last.val = Float64Zero
       /\ last.i = Pow2(54) => last.err # "" /\ last.val = Float64Zero

\* C6 witness: WeiToEtherSafe rejected a wei above the limit whose
\* narrowing does not round up
C6_Reached ==
  /\ last.op = "WeiToEtherSafe"
  /\ NonNegativeInt
  /\ IntCmp(last.i, maxSafeWei) > 0
  /\ ~RoundsUp
  /\ last.err = ErrWeiTooLarge

\* float64(wei) / 1e18 in machine arithmetic
MachineEther == Float64Quo(Float64OfInt(last.i), Float64Lit1e18)

\* C7: for a non-negative wei that fits int64, WeiToEtherOptimized returns
\* float64(wei) / 1e18 with no error, 0 for wei = 0, except that it
\* returns the precision-loss error exactly for the wei from 1 to 9
C7_FastPath ==
  (last.op = "WeiToEtherOptimized" /\ NonNegativeInt /\ IsInt64(last.i))
    => IF IntCmp(last.i, NewInt(1)) >= 0 /\ IntCmp(last.i, NewInt(9)) <= 0
       THEN /\ last.err = ErrWeiPrecision /\ last.val = Float64Zero
            /\ FloatSign(MachineEther) # 0
            /\ Float64Less(MachineEther, Float64Lit1eMinus17)
       ELSE /\ last.err = "" /\ last.val = MachineEther
            /\ IntSign(last.i) = 0 => last.val = Float64Zero
            /\ ~(FloatSign(MachineEther) # 0
                   /\ Float64Less(MachineEther, Float64Lit1eMinus17))

\* C7 witness: WeiToEtherOptimized accepted the largest int64, whose
\* *big.Float narrowing rounds up
C7_Reached ==
  /\ last.op = "WeiToEtherOptimized"
  /\ last.i = IntOf(FALSE, MaxInt64)
  /\ RoundsUp
  /\ last.err = ""

\* C8: for a non-negative wei that does not fit int64, WeiToEtherOptimized
\* returns the value and the error or no-error outcome of WeiToEther
C8_SlowPathIsWeiToEther ==
  (last.op = "WeiToEtherOptimized" /\ NonNegativeInt /\ ~IsInt64(last.i))
    => /\ last.val = WeiToEther(last.i, pow10Cache, pow10FloatCache).val
       /\ (last.err = "")
            = (WeiToEther(last.i, pow10Cache, pow10FloatCache).err = "")

\* C8 witness: WeiToEtherOptimized took the slow path and returned a
\* double
C8_Reached ==
  /\ last.op = "WeiToEtherOptimized"
  /\ NonNegativeInt /\ ~IsInt64(last.i)
  /\ last.err = "" /\ last.val # Float64Zero

\* the argument of the last call is a whole number of ether
WholeEtherArgument ==
  NonNegativeInt /\ Len(natDiv(last.i.abs, natExp10(CommonWei)).r) = 0

\* C9: for a whole number of ether v < 2^53 * 10^18, WeiToEther(v)
\* succeeds and EtherToWei of its result succeeds and returns v
C9_RoundTripExact ==
  (last.op = "RoundTrip" /\ WholeEtherArgument /\ IntCmp(last.i, maxSafeWei) < 0)
    => last.err = "" /\ last.int = last.i

\* C9 witness: a round trip of a whole number of ether below the limit
\* succeeded and returned another integer
C9_Reached ==
  /\ last.op = "RoundTrip"
  /\ WholeEtherArgument /\ IntCmp(last.i, maxSafeWei) < 0
  /\ last.err = "" /\ last.int # last.i

\* an insert into a cache map is under way while another goroutine reads
\* or writes that map
Overlap ==
  \E g \in Goroutines : goroutines[g].pc \in {"read", "write"} /\ WriterBeside(g)

\* C10: in every interleaving of concurrent BigInt2BigFloat,
\* FloatToBigIntBaseX, BigIntBaseX, UnBaseX and UnBaseXFloatString calls,
\* no write to a cache map overlaps another call's read or write of it
C10_NoOverlap == ~Overlap

\* C10 witness: the runtime ended the process on two inserts into one map
C10_Reached == fatal = "concurrent map writes"

\* the decimal digits of 10^e: a one and e zeros
DigitsOfPow10(e) == <<"1">> \o [i \in 1..e |-> "0"]

\* the integer k is 10^e
IsPow10(k, e) == ~k.nil /\ ~k.neg /\ natDigits(k.abs) = DigitsOfPow10(e)

\* the *big.Float x is 10^e: an integer, exactly, with those digits
IsFloatPow10(x, e) ==
  /\ x.form = "finite"
  /\ IsPow10(FloatInt(x, NilInt), e)
  /\ FloatCmp(FloatSetInt(FloatInt(x, NilInt)), x) = 0

\* every entry of both caches at an exponent e >= 0 is 10^e
EntriesArePowers ==
  /\ \A e \in DOMAIN pow10Cache : e >= 0 => IsPow10(pow10Cache[e], e)
  /\ \A e \in DOMAIN pow10FloatCache :
       e >= 0 => IsFloatPow10(pow10FloatCache[e], e)

\* a step leaves every entry the caches hold as it is
EntriesKept ==
  /\ \A e \in DOMAIN pow10Cache :
       e \in DOMAIN pow10Cache' /\ pow10Cache'[e] = pow10Cache[e]
  /\ \A e \in DOMAIN pow10FloatCache :
       e \in DOMAIN pow10FloatCache' /\ pow10FloatCache'[e] = pow10FloatCache[e]

\* C11: in every reachable state every entry of pow10Cache at e >= 0 is
\* 10^e and every entry of pow10FloatCache at e is 10^e, and no operation
\* changes an entry once it is there, so repeated lookups of e return the
\* same factors whatever ran in between
C11_EntriesArePowers == []EntriesArePowers /\ [][EntriesKept]_vars

\* C11 witness: a call inserted 10^20 into pow10Cache and another inserted
\* 10^6 into pow10FloatCache
C11_Reached ==
  /\ 20 \in DOMAIN pow10Cache /\ IsPow10(pow10Cache[20], 20)
  /\ 6 \in DOMAIN pow10FloatCache /\ IsFloatPow10(pow10FloatCache[6], 6)
  /\ last.op = "UnBaseXFloatString" /\ last.y = CommonWei

\* C12: at initialisation both caches hold exactly the exponents 14 and
\* 18, and a call of any operation with exponent 14 or 18 inserts nothing
\* into either cache
C12_CommonExponentsNeverWritten ==
  /\ DOMAIN pow10Cache = {CommonStable, CommonWei}
  /\ DOMAIN pow10FloatCache = {CommonStable, CommonWei}
  /\ [][(last.op = "none" /\ last'.op # "none"
           /\ last'.y \in {CommonStable, CommonWei})
          => UNCHANGED <<pow10Cache, pow10FloatCache>>]_vars

\* C12 witness: the first call of the run was BigInt2BigFloat with exponent
\* 14 on a non-nil integer, and the caches hold 14 and 18 and nothing else
C12_Reached ==
  /\ last.op = "BigInt2BigFloat" /\ last.y = CommonStable /\ ~last.i.nil
  /\ DOMAIN pow10Cache = {CommonStable, CommonWei}
  /\ DOMAIN pow10FloatCache = {CommonStable, CommonWei}

\* a null operand read as zero
ZeroIfNil(v) == IF v.nil THEN NewInt(0) ELSE v

\* the result the contract gives op on the operands x and y
ContractResult(op, x, y) ==
  IF op = "Add" THEN IntAdd(ZeroIfNil(x), ZeroIfNil(y))
  ELSE IF op = "Sub" THEN IntSub(ZeroIfNil(x), ZeroIfNil(y))
  ELSE IF x.nil \/ y.nil THEN NewInt(0)
  ELSE IF op = "Mul" THEN IntMul(x, y)
  ELSE IF IntSign(y) = 0 THEN NewInt(0)
  ELSE IntDiv(x, y)

\* C13: Add, Sub, Mul and Div never fault, whichever of the receiver and
\* the operands are in the null state, and leave a defined result in the
\* receiver: Add and Sub with a null operand read as zero, Mul and Div zero
\* when an operand is null
C13_NullOperandsDefined ==
  arith.op # "none" =>
    /\ ~arith.fault
    /\ arith.after[arith.b] =
         ContractResult(arith.op, arith.ws[arith.x], arith.ws[arith.y])

\* C13 witness: Add was called with both operands in the null state on a
\* receiver that is neither of them, and dereferenced the nil *big.Int
C13_Reached ==
  /\ arith.op = "Add" /\ arith.fault
  /\ arith.ws[arith.x].nil /\ arith.ws[arith.y].nil
  /\ arith.b # arith.x /\ arith.b # arith.y

\* q is the quotient of x by y # 0 with a remainder 0 <= r < |y|, which is
\* the quotient (*big.Int).Div defines
IsQuotient(q, x, y) ==
  /\ ~q.nil
  /\ IntSign(IntSub(x, IntMul(q, y))) >= 0
  /\ natCmp(IntSub(x, IntMul(q, y)).abs, y.abs) < 0

\* C14: Div never faults; the receiver ends up exactly zero when the
\* divisor is zero or an operand is in the null state, and the quotient of
\* the Euclidean division otherwise; every wrapper but the receiver is
\* left as it was
C14_DivZeroOrQuotient ==
  arith.op = "Div" =>
    /\ ~arith.fault
    /\ IF \/ arith.ws[arith.x].nil \/ arith.ws[arith.y].nil
          \/ IntSign(arith.ws[arith.y]) = 0
       THEN arith.after[arith.b] = NewInt(0)
       ELSE IsQuotient(arith.after[arith.b], arith.ws[arith.x], arith.ws[arith.y])
    /\ \A i \in Boxes \ {arith.b} : arith.after[i] = arith.ws[i]

\* C14 witness: Div was called with a non-zero dividend and a divisor that
\* is zero, on a receiver that held another value, and left zero in it
C14_Reached ==
  /\ arith.op = "Div" /\ ~arith.fault
  /\ ~arith.ws[arith.x].nil /\ IntSign(arith.ws[arith.x]) # 0
  /\ ~arith.ws[arith.y].nil /\ IntSign(arith.ws[arith.y]) = 0
  /\ arith.ws[arith.b] = NewInt(2) /\ arith.after[arith.b] = NewInt(0)

\* C15: UnmarshalJSON of JSON null or of the empty string returns no error
\* and leaves the wrapper in the null state, which is not the value zero;
\* MarshalJSON of a wrapper in the null state emits JSON null, not the
\* string "0"
C15_NullAndEmptyAreNull ==
  /\ (lastJSON.op = "UnmarshalJSON" /\ lastJSON.data \in {JSONNull, JSONString(<<>>)})
       => /\ lastJSON.err = ""
          /\ wrappers[lastJSON.b] = NilAddr
          /\ ValueOf(Memory, lastJSON.b) # NewInt(0)
  /\ (lastJSON.op = "MarshalJSON" /\ lastJSON.was.nil)
       => lastJSON.out = JSONNull /\ lastJSON.out # JSONString(<<"0">>)

\* C15 witness: a wrapper that held 5 was unmarshalled from the empty
\* string and is in the null state, with no error
C15_Reached ==
  /\ lastJSON.op = "UnmarshalJSON" /\ lastJSON.data = JSONString(<<>>)
  /\ lastJSON.was = NewInt(5)
  /\ lastJSON.err = "" /\ wrappers[lastJSON.b] = NilAddr

\* str is the canonical base-10 text of the integer v: its digits with no
\* leading zero, "-" before them exactly when v is negative
IsCanonicalDecimal(str, v) ==
  /\ Len(str) > 0
  /\ (str[1] = "-") = (IntSign(v) < 0)
  /\ Len(unsigned(str)) > 0
  /\ \A i \in 1..Len(unsigned(str)) : digitVal(unsigned(str)[i]) < 10
  /\ Len(unsigned(str)) > 1 => unsigned(str)[1] # "0"
  /\ natScan(unsigned(str), Len(unsigned(str)), 10) = v.abs

\* C16: MarshalJSON of a wrapper emits JSON null for the null state and
\* otherwise a JSON string, never a number, holding the canonical base-10
\* text of the value; UnmarshalJSON of that output succeeds and leaves a
\* wrapper with the same null-ness and the same value
C16_MarshalRoundTrip ==
  lastJSON.op = "RoundTripJSON" =>
    /\ IF lastJSON.was.nil THEN lastJSON.out = JSONNull
       ELSE /\ lastJSON.out.kind = "string"
            /\ IsCanonicalDecimal(lastJSON.out.str, lastJSON.was)
    /\ lastJSON.err = ""
    /\ ValueOf(Memory, lastJSON.to) = lastJSON.was

\* C16 witness: a wrapper holding -2^63 was marshalled and the output
\* unmarshalled into the other wrapper, which holds -2^63
C16_Reached ==
  /\ lastJSON.op = "RoundTripJSON" /\ lastJSON.b # lastJSON.to
  /\ lastJSON.was = IntOf(TRUE, MinInt64Abs)
  /\ lastJSON.out.kind = "string" /\ lastJSON.out.str[1] = "-"
  /\ ValueOf(Memory, lastJSON.to) = IntOf(TRUE, MinInt64Abs)

\* C17: UnmarshalJSON of a JSON number that is an integer float64 can hold
\* at all succeeds and stores that integer, at the edges of the int64 range
\* and beyond it too
C17_IntegralNumberStored ==
  (/\ lastJSON.op = "UnmarshalJSON" /\ lastJSON.data.kind = "number"
   /\ ~lastJSON.data.half /\ ~JSONFails(lastJSON.data))
    => /\ lastJSON.err = ""
       /\ ValueOf(Memory, lastJSON.b) = IntOf(lastJSON.data.neg, lastJSON.data.abs)

\* C17 witness: the number 9223372036854775808 = 2^63 was unmarshalled with
\* no error and the wrapper holds -2^63
C17_Reached ==
  /\ lastJSON.op = "UnmarshalJSON"
  /\ lastJSON.data = JSONNumber(FALSE, MinInt64Abs, FALSE)
  /\ lastJSON.err = ""
  /\ ValueOf(Memory, lastJSON.b) = IntOf(TRUE, MinInt64Abs)

\* str parses in the base: an optional sign and then digits of the base,
\* at least one, and nothing else
Parses(str, base) ==
  /\ Len(unsigned(str)) > 0
  /\ \A i \in 1..Len(unsigned(str)) : digitVal(unsigned(str)[i]) < base

\* the integer a string that parses in the base spells
Parsed(str, base) ==
  IntOf(hasSign(str) /\ str[1] = "-", natScan(unsigned(str), Len(unsigned(str)), base))

\* the outcome of the call on the string str is the one of parsing base 10
\* first, then base 16 after a 0x, and a syntax error when neither parses
ParsedInOrder(str) ==
  IF Parses(str, 10)
  THEN lastJSON.err = "" /\ ValueOf(Memory, lastJSON.b) = Parsed(str, 10)
  ELSE IF HasPrefix0x(str) /\ Parses(SubSeq(str, 3, Len(str)), 16)
  THEN /\ lastJSON.err = ""
       /\ ValueOf(Memory, lastJSON.b) = Parsed(SubSeq(str, 3, Len(str)), 16)
  ELSE lastJSON.err = ErrSyntax

\* C18: UnmarshalJSON of a non-empty JSON string stores its base-10 value
\* when it parses in base 10; when it does not and starts with 0x, the
\* base-16 value of the rest when that parses; and returns a syntax error,
\* not success, when neither parses
C18_StringParsedInOrder ==
  (/\ lastJSON.op = "UnmarshalJSON" /\ lastJSON.data.kind = "string"
   /\ Len(lastJSON.data.str) > 0)
    => ParsedInOrder(lastJSON.data.str)

\* C18 witness: the string of one quote character, which parses in no
\* base, was unmarshalled with no error and left the null state
C18_Reached ==
  /\ lastJSON.op = "UnmarshalJSON" /\ lastJSON.data = JSONString(<<"\"">>)
  /\ lastJSON.err = "" /\ wrappers[lastJSON.b] = NilAddr

\* C19: in every reachable state no wrapper refers to an allocation
\* BigIntPool holds, and no two wrappers refer to the same allocation
C19_NoPooledAlias ==
  /\ \A w \in Wrappers : wrappers[w] # NilAddr => wrappers[w] \notin BigIntPool
  /\ \A w, u \in Wrappers :
       (w # u /\ wrappers[w] # NilAddr) => wrappers[w] # wrappers[u]

\* C19 witness: a call on one wrapper failed and released its allocation,
\* a call on the other wrapper drew it from the pool, and both refer to it
C19_Reached ==
  /\ lastJSON.op = "UnmarshalJSON" /\ lastJSON.pooled /\ lastJSON.err = ""
  /\ \E w \in Wrappers \ {lastJSON.b} :
       wrappers[w] = lastJSON.p /\ wrappers[lastJSON.b] = lastJSON.p

\* a memory with nothing pooled and every wrapper in the null state
FreshMemory ==
  [heap |-> [a \in Addrs |-> NewInt(0)], pool |-> {},
   wrappers |-> [w \in Wrappers |-> NilAddr], gets |-> 0, puts |-> 0]

\* what a wrapper holds after unmarshalling data into a new allocation
FreshValue(data) ==
  ValueOf(UnmarshalJSON(FreshMemory, 1, data, 1, NewInt(0)).m, 1)

\* C20: when UnmarshalJSON draws from BigIntPool an instance that was
\* released holding a value, the wrapper ends up with what the same input
\* gives on a new allocation, whatever that value was
C20_PooledValueNotObserved ==
  (lastJSON.op = "UnmarshalJSON" /\ lastJSON.pooled)
    => ValueOf(Memory, lastJSON.b) = FreshValue(lastJSON.data)

\* C20 witness: the call drew from the pool an instance released holding
\* 12 and parsed "31" into it
C20_Reached ==
  /\ lastJSON.op = "UnmarshalJSON" /\ lastJSON.pooled
  /\ lastJSON.held = NewInt(12)
  /\ lastJSON.data = JSONString(<<"3", "1">>)
  /\ ValueOf(Memory, lastJSON.b) = NewInt(31)

\* C21: UnBaseXFloatString with more than 100 digits asked for returns the
\* string it returns for 100 digits
C21_DigitsCappedAt100 ==
  (last.op = "UnBaseXFloatString" /\ last.d > 100)
    => last.str = UnBaseXFloatString(last.i, last.y, 100,
                                     pow10Cache, pow10FloatCache).str

\* C21 witness: 1 was formatted at exponent 20 with 101 digits asked for;
\* 10^-20 as a *big.Float has more than 100 decimals, and the string is
\* not that of zero
C21_Reached ==
  /\ last.op = "UnBaseXFloatString" /\ last.d = 101
  /\ last.i = NewInt(1) /\ last.y = 20
  /\ last.str # "0" /\ last.str # "0.0"

\* C22: for a nil integer and for every negative integer, whatever the
\* exponent and the digit count, UnBaseXFloatString returns the string "0"
\* and UnBaseX returns the integer zero
C22_NilAndNegativeAreZero ==
  (last.i.nil \/ IntSign(last.i) < 0) =>
    /\ last.op = "UnBaseXFloatString" => ~last.fault /\ last.str = "0"
    /\ last.op = "UnBaseX" => ~last.fault /\ last.int = NewInt(0)

\* C22 witness: -123 was formatted at exponent 6 with 8 digits and the
\* string is "0"
C22_Reached ==
  /\ last.op = "UnBaseXFloatString" /\ last.i = NewInt(0 - 123)
  /\ last.y = 6 /\ last.d = 8 /\ last.str = "0"

\* the character of the string str at position i
CharAt(str, i) == SubSeq(str, i, i)

\* the string str has a decimal point
HasPoint(str) == \E i \in 1..Len(str) : CharAt(str, i) = "."

\* the decimal digits of the magnitude a
DecimalOf(a) == IF Len(a) = 0 THEN "0" ELSE String(natDigits(a))

\* C23: the string UnBaseXFloatString returns for a non-nil non-negative
\* integer never ends in a decimal point; when it has a point, it ends in
\* 0 only if that 0 is directly after the point; it has no point exactly
\* when the digit count is 0, and then no digit is stripped: it is all of
\* the digits of f / 10^y, trailing zeros included, when 10^y divides f
C23_OnlyFractionStripped ==
  (last.op = "UnBaseXFloatString" /\ ~last.i.nil /\ IntSign(last.i) >= 0) =>
    /\ ~last.fault
    /\ Len(last.str) > 0
    /\ CharAt(last.str, Len(last.str)) # "."
    /\ HasPoint(last.str) <=> last.d > 0
    /\ (HasPoint(last.str) /\ CharAt(last.str, Len(last.str)) = "0")
         => CharAt(last.str, Len(last.str) - 1) = "."
    /\ (last.d = 0 /\ Len(natDiv(last.i.abs, natExp10(last.y)).r) = 0)
         => last.str = DecimalOf(natDiv(last.i.abs, natExp10(last.y)).q)

\* C23 witness: 1234 * 10^18 was formatted at exponent 6 with 0 digits and
\* the string keeps its twelve trailing zeros
C23_Reached ==
  /\ last.op = "UnBaseXFloatString" /\ last.d = 0 /\ last.y = 6
  /\ last.i = IntOf(FALSE, natMulW(natExp10(18), 1234))
  /\ last.str = "1234000000000000"

\* the product ether * 10^18 as EtherToWei holds it, the integer its
\* truncation gives and the fraction of a Wei the truncation discards
WeiProduct(ether) == FloatMul(0, FloatSetFloat64(ether), etherDivisor)
TruncatedWei(ether) == FloatInt(WeiProduct(ether), NewInt(0))
DiscardedWei(ether) ==
  FloatSub(0, WeiProduct(ether), FloatSetInt(TruncatedWei(ether)))

\* the call was EtherToWei on a finite ether amount that is not below zero
EtherArgument ==
  /\ last.op = "EtherToWei"
  /\ ~IsNaN(last.f) /\ ~IsInf(last.f) /\ ~Float64Less(last.f, Float64Zero)

\* the discarded fraction is below 0.5 Wei
DiscardsLessThanHalf ==
  FloatCmp(DiscardedWei(last.f), FloatSetFloat64(Float64LitHalf)) < 0

\* C24: EtherToWei returns the truncated Wei integer and no error whenever
\* the fraction of a Wei the truncation discards is below 0.5, and returns
\* the precision-loss error only when that fraction is 0.5 or more
C24_HalfWeiTolerated ==
  EtherArgument =>
    /\ DiscardsLessThanHalf
         => ~last.fault /\ last.err = "" /\ last.int = TruncatedWei(last.f)
    /\ last.err = ErrEtherPrecision => ~DiscardsLessThanHalf

\* C24 witness: EtherToWei(1e-19), whose product is 0.1 Wei and truncates
\* to 0 discarding less than 0.5 Wei, returned the precision-loss error
C24_Reached ==
  /\ EtherArgument /\ last.f = Float64Dec(1, 19)
  /\ TruncatedWei(last.f) = NewInt(0) /\ DiscardsLessThanHalf
  /\ last.err = ErrEtherPrecision

\* WeiToEtherOptimized was called on a wei it converts by machine
\* arithmetic: not nil, not negative, an int64 not above maxSafeInt64
TookFastPath ==
  /\ last.op = "WeiToEtherOptimized"
  /\ ~last.i.nil /\ IntSign(last.i) >= 0
  /\ IsInt64(last.i) /\ IntCmp(last.i, maxSafeInt64) <= 0

\* C25: on every wei for which WeiToEtherOptimized takes its fast path, it
\* accepts or rejects as WeiToEther does and returns the float64 that
\* WeiToEther returns
C25_FastPathAgreesWithBalanced ==
  TookFastPath =>
    /\ last.err = WeiToEther(last.i, pow10Cache, pow10FloatCache).err
    /\ last.val = WeiToEther(last.i, pow10Cache, pow10FloatCache).val

\* C25 witness: WeiToEtherOptimized refused 3 wei on its fast path, and
\* WeiToEther accepts 3 wei
C25_Reached ==
  /\ TookFastPath /\ last.i = NewInt(3)
  /\ last.err = ErrWeiPrecision
  /\ WeiToEther(last.i, pow10Cache, pow10FloatCache).err = ""

\* C26: in every reachable state pow10Cache and pow10FloatCache hold the
\* same set of exponents, an operation that misses for an exponent having
\* inserted both forms of its power
C26_CachesHoldSameExponents == DOMAIN pow10Cache = DOMAIN pow10FloatCache

\* C26 witness: UnBaseX missed for exponent 6 and inserted 10^6 into
\* pow10Cache, and pow10FloatCache has no entry for 6
C26_Reached ==
  /\ last.op = "UnBaseX" /\ last.y = 6 /\ ~last.i.nil /\ IntSign(last.i) >= 0
  /\ 6 \in DOMAIN pow10Cache /\ 6 \notin DOMAIN pow10FloatCache

\* the call of op with the arguments i, f, y, d on the caches c and fc
Apply(op, i, f, y, d, c, fc) ==
  IF op = "BigInt2Float" THEN BigInt2Float(i, y, c, fc)
  ELSE IF op = "BigInt2BigFloat" THEN BigInt2BigFloat(i, y, c, fc)
  ELSE IF op = "FloatToBigIntBaseX" THEN FloatToBigIntBaseX(f, y, c, fc)
  ELSE IF op = "BigIntBaseX" THEN BigIntBaseX(f, y, c, fc)
  ELSE IF op = "UnBaseX" THEN UnBaseX(i, y, c, fc)
  ELSE IF op = "UnBaseXFloatString" THEN UnBaseXFloatString(i, y, d, c, fc)
  ELSE IF op = "ProcessFloatToDecimalAdjustment"
  THEN ProcessFloatToDecimalAdjustment(y, f, c, fc)
  ELSE IF op = "WeiToEther" THEN WeiToEther(i, c, fc)
  ELSE IF op = "WeiToEtherOptimized" THEN WeiToEtherOptimized(i, c, fc)
  ELSE IF op = "WeiToEtherSafe" THEN WeiToEtherSafe(i, c, fc)
  ELSE IF op = "EtherToWei" THEN EtherToWei(f, c, fc)
  ELSE RoundTrip(i, c, fc)

\* what the caller sees of a call: the values returned, the error, the
\* fault
Outcome(r) == <<r.val, r.int, r.flt, r.str, r.err, r.fault>>

\* C28: the outcome of every call is the outcome the same call has on the
\* caches of initialisation, whatever calls came before it
C28_OutcomeIndependentOfCache ==
  last.op # "none" =>
    Outcome(last) = Outcome(Apply(last.op, last.i, last.f, last.y, last.d,
                                  InitPow10Cache, InitPow10FloatCache))

\* C28 witness: BigIntBaseX(1.5, 6) returned 1500000 after an earlier call
\* had inserted 10^6 into pow10Cache, and faults on the caches of
\* initialisation
C28_Reached ==
  /\ last.op = "BigIntBaseX" /\ last.y = 6 /\ last.f = Float64Dec(15, 1)
  /\ ~last.fault /\ last.int = NewInt(1500000)
  /\ BigIntBaseX(last.f, last.y, InitPow10Cache, InitPow10FloatCache).fault

\* the pointer the caller holds refers to no cache entry
ResultIsOwn == held.at.kind \notin {"pow10Cache", "pow10FloatCache"}

\* C27: no operation changes or removes an existing entry of pow10Cache or
\* pow10FloatCache and no pointer returned to a caller refers to an entry,
\* the operations that modify their result in place included, so a caller
\* writing through the pointer it was returned leaves the caches as they
\* were
C27_ResultsNeverAliasEntries == []ResultIsOwn /\ [][EntriesKept]_vars

\* FloatToBigIntBaseXPercent(1.5, 6) returned 15000, the caller added one
\* to it, and the factor 10^6 the call had inserted is still 10^6
C27_Reached ==
  /\ held.op = "FloatToBigIntBaseXPercent"
  /\ held.wrote
  /\ held.obj = NewInt(15001)
  /\ 6 \in DOMAIN pow10Cache
  /\ pow10Cache[6] = IntExp10(6)

\* the last call was UnmarshalJSON, alone or as the second half of a round
\* trip
Unmarshalled == lastJSON.op \in {"UnmarshalJSON", "RoundTripJSON"}

\* the wrapper of the last call owns the instance the call drew
OwnsDrawn ==
  /\ wrappers[lastJSON.to] = lastJSON.p
  /\ lastJSON.p \notin BigIntPool
  /\ lastJSON.puts = 0

\* the last call put the instance it drew back, once
PutBackOnce == lastJSON.p \in BigIntPool /\ lastJSON.puts = 1

\* the exits of UnmarshalJSON on which the wrapper keeps the instance: a
\* number or a non-empty string that parsed
ParsedValue ==
  /\ lastJSON.err = ""
  /\ lastJSON.data.kind \in {"number", "string"}
  /\ wrappers[lastJSON.to] # NilAddr

\* C29: a call of UnmarshalJSON that fails JSON decoding calls neither Get
\* nor Put and leaves the pool as it was; every other call calls Get once
\* and either ends with the wrapper owning the instance drawn, on a
\* successful number or string parse, or has put that instance back exactly
\* once, on every other exit
C29_GetAndPutPaired ==
  Unmarshalled =>
    IF JSONFails(lastJSON.data)
    THEN /\ lastJSON.gets = 0 /\ lastJSON.puts = 0
         /\ lastJSON.p \in BigIntPool <=> lastJSON.pooled
    ELSE /\ lastJSON.gets = 1
         /\ IF ParsedValue THEN OwnsDrawn ELSE PutBackOnce

\* C29 witness: "12a" was unmarshalled into a wrapper, the instance came
\* from the pool and is back in it after the failed parse
C29_Reached ==
  /\ lastJSON.op = "UnmarshalJSON" /\ lastJSON.pooled
  /\ lastJSON.data = JSONString(<<"1", "2", "a">>)
  /\ lastJSON.err = ErrSyntax
  /\ PutBackOnce

\* the last call was a parse that failed: BigInt.SetString returned false
\* or UnmarshalJSON returned an error
ParseFailed ==
  \/ lastJSON.op = "SetString" /\ ~lastJSON.ok
  \/ lastJSON.op = "UnmarshalJSON" /\ lastJSON.err # ""

\* C30: after BigInt.SetString returned false or UnmarshalJSON returned an
\* error the wrapper is null exactly if it was null before the call and
\* holds the value it held before the call
C30_FailedParseKeepsWrapper ==
  ParseFailed => ValueOf(Memory, lastJSON.b) = lastJSON.was

\* "12a" was unmarshalled into a wrapper that held 5: the call returned
\* ErrSyntax and the wrapper holds 12
C30_Reached ==
  /\ lastJSON.op = "UnmarshalJSON"
  /\ lastJSON.data = JSONString(<<"1", "2", "a">>)
  /\ lastJSON.err = ErrSyntax
  /\ lastJSON.was = NewInt(5)
  /\ ValueOf(Memory, lastJSON.b) = NewInt(12)

====
